---- MODULE Spec2Model ----
(***************************************************************************)
(* State-machine model of the AeroLex-Logger streaming ASR service         *)
(* (src/src/asr_service_vr.py) and of the transcript matchers of the       *)
(* backend (src/backend/...).                                              *)
(*                                                                         *)
(* Nine specifications share the variables:                                *)
(*   SpecSeg     audio capture and segmentation (VRAudioBuffer.add_audio), *)
(*   Spec        the transcription threads of a session and its log,       *)
(*   SpecMatch   the two transcript matchers of the backend,               *)
(*   SpecText    the text functions of the evaluation, one input each,     *)
(*   SpecLock    the segmentation loop beside the threads at the model lock,*)
(*   SpecMerge   one thread merging an evaluation into a log on disk,      *)
(*   SpecFault   the segmentation loop and the threads with their handlers,*)
(*   SpecLive    the threads of a session under a fair scheduler,          *)
(*   SpecBackend the start/stop routes of the backend and the processes    *)
(*               they spawn and signal.                                    *)
(*                                                                         *)
(* Units.  Time is counted in ticks of half a second, sample counts are    *)
(* scaled so that one captured frame holds one tick of audio.  Confidence  *)
(* is counted in thousandths.                                              *)
(***************************************************************************)
EXTENDS Integers, Sequences, FiniteSets, TLC

VARIABLES
    cfg,          \* VRConfig: the values read from asr_config.ini
    running,      \* VRASRService.running
    now,          \* time.time(), in ticks
    captured,     \* number of frames delivered by the audio stream so far
    audio_queue,  \* VRASRService.audio_queue: frames [samples, ts]
    ab,           \* VRASRService.audio_buffer: the VRAudioBuffer fields
    closed,       \* history: the last add_audio call, its frame and how it ended
    tasks,        \* the _transcribe_and_submit threads, in spawn order
    model_lock,   \* VRWhisperTranscriber.model_lock: 0 or the holder
    stop_flag,    \* logs_dir/.asr_stop_recording exists
    iso_clock,    \* datetime.now(), as read for timestamp_str
    log_file,     \* asr_results.jsonl: the lines on disk
    audio_dir,    \* the WAV clips on disk (their timestamp-derived names)
    posted,       \* the submissions the backend has received
    request,      \* a transcript and the reference messages it is matched with
    best_answer,  \* what best_match_similarity returned for it, once called
    eval_answer,  \* what evaluate_transcription returned for it, once called
    process,      \* the service's process: serving or exited, and its exit code
    calc,         \* a text function of the evaluation, its input and its results
    backend       \* the backend's ASR routes: the tracked process, the handlers

vars == << cfg, running, now, captured, audio_queue, ab, closed, tasks,
           model_lock, stop_flag, iso_clock, log_file, audio_dir, posted,
           request, best_answer, eval_answer, process, calc, backend >>

-----------------------------------------------------------------------------
(* Bounds of the model *)

MaxFrames == 9      \* frames the audio stream delivers
MaxQueue == 3       \* frames waiting in audio_queue that are explored
MaxTasks == 2       \* utterance threads spawned
MaxIso == 2         \* largest datetime.now() reading
MaxThreads == 3     \* utterance threads that contend for the model
MaxLines == 3       \* lines of a log into which an evaluation is merged
MaxRequests == 3    \* start/stop requests the backend receives for the student
MaxSpawns == 2      \* ASR processes the backend spawns for the student

-----------------------------------------------------------------------------
(* Program constants, scaled to the units above *)

None == -1                     \* Python's None for the time markers
SAMPLE_RATE == 4               \* samples per second (detected at runtime)
WHISPER_SAMPLE_RATE == 2       \* 16 kHz, half the capture rate here
CHUNK_SIZE == 2                \* samples per frame: one tick of audio
BUFFER_DURATION == 4           \* ticks (2 s) of pre-roll kept
SPEECH_TIMEOUT == 2            \* ticks (1.0 s)
MIN_SPEECH_DURATION == 1       \* ticks (0.5 s)
silero_buffer_duration == 2    \* ticks (1.0 s)
MIN_CONFIDENCE == 550          \* 0.55
MIN_TRANSCRIPT_LENGTH == 10
MIN_WORD_COUNT == 3

(* int(duration * sample_rate), the duration given in ticks of half a second *)
SamplesIn(ticks) == (ticks * SAMPLE_RATE) \div 2

OVERLAP_SAMPLES == 1           \* int(OVERLAP_DURATION * sample_rate), 0.3 s

(* VRConfig as asr_config.ini and the session descriptor can set it: the    *)
(* defaults; a run without session directories and identifiers (the         *)
(* environment fallback of load_session_config); a file that asks for long  *)
(* utterances; a file that switches the ring buffer off; a run of the first *)
(* kind whose file sets the length and word-count filters to 0.             *)
DefaultConfig ==
    [ USE_CIRCULAR_BUFFER |-> TRUE,
      SPEECH_TIMEOUT |-> SPEECH_TIMEOUT,
      MIN_SPEECH_DURATION |-> MIN_SPEECH_DURATION,
      MIN_CONFIDENCE |-> MIN_CONFIDENCE,
      MIN_TRANSCRIPT_LENGTH |-> MIN_TRANSCRIPT_LENGTH,
      MIN_WORD_COUNT |-> MIN_WORD_COUNT,
      AUDIO_DIR |-> TRUE,
      SESSION_IDS |-> TRUE ]

StandaloneConfig ==
    [DefaultConfig EXCEPT !.AUDIO_DIR = FALSE, !.SESSION_IDS = FALSE]

LongSpeechConfig ==
    [DefaultConfig EXCEPT !.MIN_SPEECH_DURATION = SPEECH_TIMEOUT + 2]

NoRingConfig ==
    [DefaultConfig EXCEPT !.USE_CIRCULAR_BUFFER = FALSE]

LenientConfig ==
    [StandaloneConfig EXCEPT !.MIN_TRANSCRIPT_LENGTH = 0, !.MIN_WORD_COUNT = 0]

SessionConfigs == { DefaultConfig, StandaloneConfig, LenientConfig }
SegmenterConfigs == { DefaultConfig, LongSpeechConfig, NoRingConfig }

-----------------------------------------------------------------------------
(* Sequence helpers *)

(* Python's s[-n:] *)
LastN(s, n) == IF n = 0 \/ Len(s) <= n THEN s ELSE SubSeq(s, Len(s) - n + 1, Len(s))

(* a deque without maxlen: nothing falls off *)
deque_unbounded(s, n) == s

(* a deque that would refuse new items once it holds n *)
deque_head(s, n) == IF Len(s) <= n THEN s ELSE SubSeq(s, 1, n)

(* collections.deque(maxlen = n) after appending: the newest n items *)
DequeTail(s, n) == IF Len(s) <= n THEN s ELSE SubSeq(s, Len(s) - n + 1, Len(s))

-----------------------------------------------------------------------------
(* VRAudioBuffer *)

(* resample_audio: the input itself at equal rates, otherwise               *)
(* int(len * target / orig) new samples computed from the input             *)
resample_audio(audio_data, orig_sr, target_sr) ==
    IF orig_sr = target_sr
    THEN [n |-> Len(audio_data), of |-> audio_data]
    ELSE [n |-> (Len(audio_data) * target_sr) \div orig_sr, of |-> audio_data]

AudioBufferInit ==
    [ buffer |-> << >>,
      is_speech |-> FALSE,
      speech_start_time |-> None,
      silence_start_time |-> None,
      circular_buffer |-> << >>,
      silero_buffer |-> << >> ]

(* The outcomes of get_speech_timestamps on the VAD window *)
VadOutcomes == {"speech", "silence", "error"}

(* a detector that would ask the VAD whatever the length of its window *)
detect_speech_no_warm_up(silero_buffer, audio_chunk, vad) ==
    [silero_buffer |-> silero_buffer \o audio_chunk, is_speech |-> (vad = "speech")]

(* detect_speech / _detect_speech_silero: the window after the call and the *)
(* decision.  An exception in the VAD leaves the window as extended and is  *)
(* turned into False by detect_speech.                                      *)
detect_speech(silero_buffer, audio_chunk, vad) ==
    LET extended == silero_buffer \o audio_chunk
        required_samples == SamplesIn(silero_buffer_duration)
        max_buffer_samples == (silero_buffer_duration * 3 * SAMPLE_RATE) \div 4
    IN  IF Len(extended) < required_samples
        THEN [silero_buffer |-> extended, is_speech |-> FALSE]
        ELSE IF vad = "error"
        THEN [silero_buffer |-> extended, is_speech |-> FALSE]
        ELSE [silero_buffer |->
                 IF Len(extended) > max_buffer_samples
                 THEN LastN(extended, max_buffer_samples) ELSE extended,
              is_speech |-> (vad = "speech")]

(* a _reset that would leave the VAD window and the time markers as they are *)
reset_buffer_only(a) ==
    [a EXCEPT !.buffer = << >>, !.is_speech = FALSE]

(* _reset *)
Reset(a) ==
    [a EXCEPT !.buffer = << >>,
              !.is_speech = FALSE,
              !.speech_start_time = None,
              !.silence_start_time = None,
              !.silero_buffer = << >>]

NoResult == [kind |-> "none"]

(* a close condition that would end the region at its first silent frame *)
silence_closes_at_once(current_time, silence_start_time, c) == TRUE

(* a close condition that would wait for MIN_SPEECH_DURATION of silence *)
silence_timed_out_after_min_speech(current_time, silence_start_time, c) ==
    current_time - silence_start_time >= c.MIN_SPEECH_DURATION

(* the close condition of add_audio *)
SilenceTimedOut(current_time, silence_start_time, c) ==
    current_time - silence_start_time >= c.SPEECH_TIMEOUT

(* a segmenter that would emit every closed region *)
SpeechAlwaysLongEnough(speech_duration, c) == TRUE

(* the emit-or-discard test of add_audio *)
SpeechLongEnough(speech_duration, c) ==
    speech_duration >= c.MIN_SPEECH_DURATION

(* a segmenter that would return the length of the region as its end *)
end_time_as_duration(current_time, speech_start_time) ==
    current_time - speech_start_time

(* the end_time add_audio returns: the timestamp of the closing frame *)
utterance_end_time(current_time, speech_start_time) == current_time

(* add_audio: the buffer after the call, what is returned, and how a        *)
(* speech region closed in this call, if one did, with its speech_duration  *)
add_audio(a, audio_chunk, timestamp, vad, c) ==
    LET a1 == IF c.USE_CIRCULAR_BUFFER
              THEN [a EXCEPT !.circular_buffer =
                        DequeTail(a.circular_buffer \o audio_chunk,
                                  SamplesIn(BUFFER_DURATION))]
              ELSE a
        d == detect_speech(a1.silero_buffer, audio_chunk, vad)
        a2 == [a1 EXCEPT !.silero_buffer = d.silero_buffer]
        current_time == timestamp
    IN  IF d.is_speech
        THEN LET started ==
                   IF ~a2.is_speech
                   THEN [a2 EXCEPT
                           !.is_speech = TRUE,
                           !.speech_start_time = current_time,
                           !.buffer =
                              IF c.USE_CIRCULAR_BUFFER
                              THEN a2.circular_buffer
                              ELSE IF Len(a2.buffer) > OVERLAP_SAMPLES
                                   THEN LastN(a2.buffer, OVERLAP_SAMPLES)
                                   ELSE << >>]
                   ELSE a2
             IN  [ab |-> [started EXCEPT !.buffer = started.buffer \o audio_chunk,
                                         !.silence_start_time = None],
                  result |-> NoResult, closed |-> "none", speech_duration |-> None]
        ELSE IF a2.is_speech
        THEN LET a3 == [a2 EXCEPT
                          !.silence_start_time =
                             IF a2.silence_start_time = None
                             THEN current_time ELSE a2.silence_start_time,
                          !.buffer = a2.buffer \o audio_chunk]
             IN  IF SilenceTimedOut(current_time, a3.silence_start_time, c)
                 THEN LET speech_duration == current_time - a3.speech_start_time
                      IN  IF SpeechLongEnough(speech_duration, c)
                          THEN [ab |-> Reset(a3),
                                result |->
                                   [kind |-> "utterance",
                                    audio |-> resample_audio(a3.buffer, SAMPLE_RATE,
                                                             WHISPER_SAMPLE_RATE),
                                    start_time |-> a3.speech_start_time,
                                    end_time |->
                                       utterance_end_time(current_time,
                                                          a3.speech_start_time)],
                                closed |-> "emitted",
                                speech_duration |-> speech_duration]
                          ELSE [ab |-> Reset(a3), result |-> NoResult,
                                closed |-> "discarded",
                                speech_duration |-> speech_duration]
                 ELSE [ab |-> a3, result |-> NoResult, closed |-> "none", speech_duration |-> None]
        ELSE IF ~c.USE_CIRCULAR_BUFFER
        THEN LET grown == a2.buffer \o audio_chunk
             IN  [ab |-> [a2 EXCEPT !.buffer =
                             IF Len(grown) > OVERLAP_SAMPLES
                             THEN LastN(grown, OVERLAP_SAMPLES) ELSE grown],
                  result |-> NoResult, closed |-> "none", speech_duration |-> None]
        ELSE [ab |-> a2, result |-> NoResult, closed |-> "none", speech_duration |-> None]

(* add_audio left by an exception where it builds the utterance it is about *)
(* to return (np.array, resample_audio), before _reset: the buffer as the   *)
(* call leaves it                                                           *)
add_audio_raised(a, audio_chunk, timestamp, vad, c) ==
    LET a1 == IF c.USE_CIRCULAR_BUFFER
              THEN [a EXCEPT !.circular_buffer =
                        DequeTail(a.circular_buffer \o audio_chunk,
                                  SamplesIn(BUFFER_DURATION))]
              ELSE a
        d == detect_speech(a1.silero_buffer, audio_chunk, vad)
    IN  [a1 EXCEPT
           !.silero_buffer = d.silero_buffer,
           !.silence_start_time = IF @ = None THEN timestamp ELSE @,
           !.buffer = @ \o audio_chunk]

(* History of the add_audio calls.  Of the last call: whether it closed a   *)
(* region, what it returned, the frame's timestamp, the VAD's decision and  *)
(* whether a region was open before it.  Of the calls so far: silence_since *)
(* is the timestamp of the first frame without speech since the last frame  *)
(* with speech, resumed tells that speech came back after a silence in the  *)
(* region that is open or has just closed, start_sample is the first sample *)
(* of the frame that opened that region, fed counts the samples handed to   *)
(* add_audio since the start or since the last call that closed a region,   *)
(* as far as one full VAD window, vad_failed tells that the VAD was asked   *)
(* about the last frame and raised; raised tells whether the iteration of   *)
(* the loop that made the last call ended in an exception ("this"), an      *)
(* earlier one did ("before"), or none has ("no").                          *)
NoCall ==
    [ how |-> "none", result |-> NoResult, speech_duration |-> None,
      timestamp |-> None, vad_speech |-> FALSE, was_speech |-> FALSE,
      silence_since |-> None, resumed |-> FALSE, start_sample |-> None,
      fed |-> 0, vad_failed |-> FALSE, raised |-> "no" ]

Observed(prev, a, audio_chunk, timestamp, vad, c) ==
    LET r == add_audio(a, audio_chunk, timestamp, vad, c)
        vad_speech == detect_speech(a.silero_buffer, audio_chunk, vad).is_speech
    IN  [ how |-> r.closed, result |-> r.result, speech_duration |-> r.speech_duration,
          timestamp |-> timestamp,
          vad_speech |-> vad_speech,
          was_speech |-> a.is_speech,
          silence_since |->
             IF vad_speech THEN None
             ELSE IF prev.silence_since = None THEN timestamp
             ELSE prev.silence_since,
          resumed |->
             IF vad_speech /\ ~a.is_speech THEN FALSE
             ELSE IF vad_speech /\ a.silence_start_time # None THEN TRUE
             ELSE prev.resumed,
          start_sample |->
             IF vad_speech /\ ~a.is_speech THEN Head(audio_chunk)
             ELSE prev.start_sample,
          fed |->
             IF r.closed # "none" THEN 0
             ELSE IF prev.fed + Len(audio_chunk) > SamplesIn(silero_buffer_duration)
             THEN SamplesIn(silero_buffer_duration)
             ELSE prev.fed + Len(audio_chunk),
          vad_failed |->
             /\ vad = "error"
             /\ Len(a.silero_buffer) + Len(audio_chunk)
                   >= SamplesIn(silero_buffer_duration),
          raised |-> IF prev.raised = "no" THEN "no" ELSE "before" ]

-----------------------------------------------------------------------------
(* Transcripts: strings as sequences of characters *)

T_EMPTY == << >>
T_OK == << "o", "k" >>
T_FEW_CHARS == << "a", " ", "b", " ", "c" >>
T_ONE_WORD == << "a", "b", "c", "d", "e", "f", "g", "h", "i", "j", "k", "l" >>
T_GOOD == << "a", "b", " ", "c", "d", " ", "e", "f", "g", "h", "i" >>

Transcripts == { T_EMPTY, T_OK, T_FEW_CHARS, T_ONE_WORD, T_GOOD }
Confidences == { 0, 549, 550, 900 }

(* what VRWhisperTranscriber.transcribe can compute from the segments the   *)
(* model yields: the joined, stripped text and exp(mean avg_logprob)        *)
ModelOutputs ==
    { [transcript |-> T_EMPTY, confidence |-> 0],
      [transcript |-> T_EMPTY, confidence |-> 900],
      [transcript |-> T_OK, confidence |-> 900],
      [transcript |-> T_FEW_CHARS, confidence |-> 900],
      [transcript |-> T_ONE_WORD, confidence |-> 900],
      [transcript |-> T_GOOD, confidence |-> 549],
      [transcript |-> T_GOOD, confidence |-> 550] }

(* the whitespace of str.split() and str.strip() that the texts contain *)
IsSpace(ch) == ch \in {" ", "\n"}

(* len(s.strip()) *)
RECURSIVE StripLeft(_)
StripLeft(s) == IF s # << >> /\ IsSpace(Head(s)) THEN StripLeft(Tail(s)) ELSE s
RECURSIVE StripRight(_)
StripRight(s) ==
    IF s # << >> /\ IsSpace(s[Len(s)]) THEN StripRight(SubSeq(s, 1, Len(s) - 1)) ELSE s
Strip(s) == StripRight(StripLeft(s))

(* len(s.split()): the number of maximal runs of non-space characters *)
WordCount(s) ==
    Cardinality({ i \in 1..Len(s) : ~IsSpace(s[i]) /\ (i = 1 \/ IsSpace(s[i - 1])) })

-----------------------------------------------------------------------------
(* Quality gate *)

(* a gate that would lack the word-count filter *)
quality_gate_two_filters(transcript, confidence, c) ==
    IF transcript = << >> THEN "empty"
    ELSE IF confidence < c.MIN_CONFIDENCE THEN "low_confidence"
    ELSE IF Len(Strip(transcript)) < c.MIN_TRANSCRIPT_LENGTH THEN "too_short"
    ELSE "pass"

(* _transcribe_and_submit, from `if transcript:` to the third filter: the   *)
(* first test that rejects names the outcome                                *)
quality_gate(transcript, confidence, c) ==
    IF transcript = << >> THEN "empty"
    ELSE LET word_count == WordCount(transcript)
             transcript_length == Len(Strip(transcript))
         IN  IF confidence < c.MIN_CONFIDENCE THEN "low_confidence"
             ELSE IF transcript_length < c.MIN_TRANSCRIPT_LENGTH THEN "too_short"
             ELSE IF word_count < c.MIN_WORD_COUNT THEN "few_words"
             ELSE "pass"

(* analyze_transcriptions: the reasons collected for one transcription; it  *)
(* is 'passed' when there is none                                           *)
analyze_reasons(transcript, confidence, min_confidence, min_length, min_words) ==
    LET word_count == WordCount(transcript)
        char_count == Len(Strip(transcript))
    IN  (IF confidence < min_confidence THEN {"Low confidence"} ELSE {})
        \cup (IF char_count < min_length THEN {"Too short"} ELSE {})
        \cup (IF word_count < min_words THEN {"Too few words"} ELSE {})

analyze_passed(transcript, confidence, min_confidence, min_length, min_words) ==
    analyze_reasons(transcript, confidence, min_confidence, min_length, min_words) = {}

-----------------------------------------------------------------------------
(* The session log *)

RequiredKeys == {"start", "end", "transcript", "confidence", "session_id"}

BasicKeys ==
    {"start", "end", "transcript", "confidence", "timestamp", "vad_engine",
     "circular_buffer", "student_id", "video_id", "session_id"}

(* the evaluations the backend can return: matched text present or empty    *)
Evaluations ==
    { [similarity |-> 8000, wer |-> 2000, matched_ground_truth |-> TRUE],
      [similarity |-> 1000, wer |-> 9000, matched_ground_truth |-> FALSE] }

NoEvaluation == [similarity |-> 0, wer |-> 0, matched_ground_truth |-> FALSE]

(* what is left of a line that a rewrite has partly overwritten *)
TornLine == [torn |-> TRUE, keys |-> {}, utt |-> 0, timestamp |-> None]

(* an entry that would name a clip whether or not one was saved *)
log_entry_always_clip(t, utt, c) ==
    [ torn |-> FALSE,
      keys |-> BasicKeys \cup {"audio_file"},
      utt |-> utt,
      start |-> t.start_time,
      end |-> t.end_time,
      transcript |-> t.transcript,
      confidence |-> t.confidence,
      timestamp |-> t.timestamp_str,
      session_id |-> c.SESSION_IDS,
      audio_file |-> t.audio_file,
      evaluation |-> NoEvaluation ]

(* log_entry of _transcribe_and_submit; utt names the utterance (history)   *)
log_entry(t, utt, c) ==
    [ torn |-> FALSE,
      keys |-> BasicKeys \cup (IF t.audio_file # None THEN {"audio_file"} ELSE {}),
      utt |-> utt,
      start |-> t.start_time,
      end |-> t.end_time,
      transcript |-> t.transcript,
      confidence |-> t.confidence,
      timestamp |-> t.timestamp_str,
      session_id |-> c.SESSION_IDS,
      audio_file |-> t.audio_file,
      evaluation |-> NoEvaluation ]

(* _update_jsonl_with_evaluation, the in-memory part: the first entry with  *)
(* the timestamp gets the scores                                            *)
FirstWithTimestamp(entries, timestamp) ==
    LET hits == { k \in 1..Len(entries) : entries[k].timestamp = timestamp }
    IN  IF hits = {} THEN 0 ELSE CHOOSE k \in hits : \A m \in hits : k <= m

(* the scores are set; matched_ground_truth is set when the new one is not   *)
(* empty and otherwise left as it was                                       *)
with_evaluation(entry, ev) ==
    [entry EXCEPT
       !.keys = @ \cup {"similarity_score", "wer"}
                  \cup (IF ev.matched_ground_truth THEN {"matched_ground_truth"} ELSE {}),
       !.evaluation =
          [ev EXCEPT !.matched_ground_truth = @ \/ entry.evaluation.matched_ground_truth]]

(* a loop without its break: every entry with the timestamp gets the scores *)
update_every_match(entries, timestamp, ev) ==
    [k \in 1..Len(entries) |->
        IF entries[k].timestamp = timestamp THEN with_evaluation(entries[k], ev)
        ELSE entries[k]]

update_entries(entries, timestamp, ev) ==
    LET k == FirstWithTimestamp(entries, timestamp)
    IN  IF k = 0 THEN entries
        ELSE [entries EXCEPT ![k] = with_evaluation(entries[k], ev)]

(* The file after `lines` are written from offset 0 over `existing` (mode   *)
(* "w" does not append): nothing of the old content is left when the new    *)
(* content is at least as long, otherwise a cut line and what followed it.  *)
overwritten(existing, lines, keep) ==
    IF keep = 0 THEN lines
    ELSE lines \o << TornLine >>
               \o SubSeq(existing, Len(existing) - keep + 2, Len(existing))

-----------------------------------------------------------------------------
(* Text normalisation (src/src/asr_evaluate.py).  Texts are sequences of    *)
(* characters over the letters, digits, space and punctuation below.        *)

Digits == << "0", "1", "2", "3", "4", "5", "6", "7", "8", "9" >>

(* the characters that are neither \w nor \s *)
Punctuation == { ",", ".", "?", "!", "-" }

(* the upper-case letters of the texts, with their lower case *)
UpperCase == ("A" :> "a") @@ ("C" :> "c") @@ ("R" :> "r")

IsWordChar(ch) == ch \notin Punctuation /\ ~IsSpace(ch)

IsDigit(ch) == \E d \in 1..Len(Digits) : Digits[d] = ch

(* str.lower() *)
lower(text) ==
    [k \in 1..Len(text) |->
        IF text[k] \in DOMAIN UpperCase THEN UpperCase[text[k]] ELSE text[k]]

(* str.split(): the maximal runs of non-space characters *)
RECURSIVE split_from(_, _, _)
split_from(text, word, words) ==
    IF text = << >>
    THEN IF word = << >> THEN words ELSE Append(words, word)
    ELSE IF IsSpace(Head(text))
    THEN split_from(Tail(text), << >>,
                    IF word = << >> THEN words ELSE Append(words, word))
    ELSE split_from(Tail(text), Append(word, Head(text)), words)

split(text) == split_from(text, << >>, << >>)

(* " ".join(words) *)
RECURSIVE join(_)
join(words) ==
    IF words = << >> THEN << >>
    ELSE IF Len(words) = 1 THEN words[1]
    ELSE words[1] \o << " " >> \o join(Tail(words))

(* str(n) for n >= 0 *)
RECURSIVE str(_)
str(n) == IF n < 10 THEN << Digits[n + 1] >> ELSE str(n \div 10) \o << Digits[(n % 10) + 1] >>

W_ZERO == << "z", "e", "r", "o" >>
W_ONE == << "o", "n", "e" >>
W_TWO == << "t", "w", "o" >>
W_FOUR == << "f", "o", "u", "r" >>
W_TEN == << "t", "e", "n" >>
W_EIGHTY == << "e", "i", "g", "h", "t", "y" >>
W_HUNDRED == << "h", "u", "n", "d", "r", "e", "d" >>
W_THOUSAND == << "t", "h", "o", "u", "s", "a", "n", "d" >>

(* number_map, for the number words of the texts: units, a teen, a         *)
(* tens-word and the scale words whose products stay within 32 bits       *)
number_map ==
    (W_ZERO :> 0) @@ (W_ONE :> 1) @@ (W_TWO :> 2) @@ (W_FOUR :> 4)
       @@ (W_TEN :> 10) @@ (W_EIGHTY :> 80) @@ (W_HUNDRED :> 100)
       @@ (W_THOUSAND :> 1000)

number_words_set == DOMAIN number_map

(* a reading that would compound a tens-word with whatever follows it *)
RECURSIVE digit_style_any_pair(_, _, _)
digit_style_any_pair(words, i, result) ==
    IF i > Len(words) THEN result
    ELSE LET value == number_map[words[i]]
         IN  IF value >= 20 /\ value < 100 /\ i + 1 <= Len(words)
             THEN digit_style_any_pair(words, i + 2,
                                       result \o str(value + number_map[words[i + 1]]))
             ELSE digit_style_any_pair(words, i + 1, result \o str(value))

(* words_to_number, the digit-by-digit reading *)
RECURSIVE digit_style(_, _, _)
digit_style(words, i, result) ==
    IF i > Len(words) THEN result
    ELSE LET value == number_map[words[i]]
         IN  IF value >= 20 /\ value < 100 /\ i + 1 <= Len(words)
                /\ number_map[words[i + 1]] < 10
             THEN digit_style(words, i + 2,
                              result \o str(value + number_map[words[i + 1]]))
             ELSE digit_style(words, i + 1, result \o str(value))

(* a reading that would keep the sub-result after thousand and million *)
RECURSIVE mathematical_no_clear(_, _, _, _)
mathematical_no_clear(words, i, total, current) ==
    IF i > Len(words) THEN str(total + current)
    ELSE LET value == number_map[words[i]]
             current_or_1 == IF current = 0 THEN 1 ELSE current
         IN  IF value >= 1000
             THEN mathematical_no_clear(words, i + 1, total + current_or_1 * value,
                                        current)
             ELSE IF value >= 100
             THEN mathematical_no_clear(words, i + 1, total, current_or_1 * value)
             ELSE mathematical_no_clear(words, i + 1, total, current + value)

(* words_to_number, the mathematical reading *)
RECURSIVE mathematical(_, _, _, _)
mathematical(words, i, total, current) ==
    IF i > Len(words) THEN str(total + current)
    ELSE LET value == number_map[words[i]]
             current_or_1 == IF current = 0 THEN 1 ELSE current
         IN  IF value >= 1000
             THEN mathematical(words, i + 1, total + current_or_1 * value, 0)
             ELSE IF value >= 100
             THEN mathematical(words, i + 1, total, current_or_1 * value)
             ELSE mathematical(words, i + 1, total, current + value)

words_to_number(words) ==
    LET is_digit_style == \A k \in 1..Len(words) : number_map[words[k]] < 100
        has_scale_words == \E k \in 1..Len(words) : words[k] \in {W_HUNDRED, W_THOUSAND}
    IN  IF is_digit_style /\ ~has_scale_words
        THEN digit_style(words, 1, << >>)
        ELSE mathematical(words, 1, 0, 0)

(* re.sub(r"[^\w]", "", word) *)
word_clean(word) == SelectSeq(word, IsWordChar)

(* re.findall(r"[^\w]+$", word)[0]: the trailing run of non-word characters *)
RECURSIVE trailing_punct(_)
trailing_punct(word) ==
    IF word = << >> \/ IsWordChar(word[Len(word)]) THEN << >>
    ELSE trailing_punct(SubSeq(word, 1, Len(word) - 1)) \o << word[Len(word)] >>

(* the inner loop of normalize_aviation_numbers: the number words collected *)
(* from position i on, up to a word that is no number word or after one     *)
(* that ends in punctuation                                                 *)
RECURSIVE number_sequence(_, _, _)
number_sequence(words, i, collected) ==
    IF i > Len(words) \/ word_clean(words[i]) \notin number_words_set
    THEN [sequence |-> collected, next |-> i, trailing |-> << >>]
    ELSE IF trailing_punct(words[i]) # << >>
    THEN [sequence |-> Append(collected, word_clean(words[i])), next |-> i + 1,
          trailing |-> trailing_punct(words[i])]
    ELSE number_sequence(words, i + 1, Append(collected, word_clean(words[i])))

(* str.isdigit() *)
isdigit(word) == word # << >> /\ \A k \in 1..Len(word) : IsDigit(word[k])

(* the outer loop of normalize_aviation_numbers *)
RECURSIVE fold_numbers(_, _, _)
fold_numbers(words, i, result) ==
    IF i > Len(words) THEN result
    ELSE IF word_clean(words[i]) \in number_words_set
    THEN LET n == number_sequence(words, i, << >>)
         IN  fold_numbers(words, n.next,
                          Append(result, words_to_number(n.sequence) \o n.trailing))
    ELSE IF isdigit(word_clean(words[i]))
    THEN fold_numbers(words, i + 1, Append(result, word_clean(words[i])))
    ELSE fold_numbers(words, i + 1, Append(result, words[i]))

W_RIDDLE == << "r", "i", "d", "d", "l", "e" >>

(* the keys of phonetic_map, as words *)
phonetic_words == { << "r", "i", "d", "e", "a", "u" >>, << "r", "e", "d", "d", "e", "l", "l" >>, << "r", "i", "d", "a", "l" >> }

(* re.sub(r"\bword\b", "riddle", text) for the three words: every maximal   *)
(* run of word characters that is one of them is replaced                   *)
RECURSIVE phonetic_from(_, _, _)
phonetic_from(text, run, done) ==
    LET closed_run == IF run \in phonetic_words THEN W_RIDDLE ELSE run
    IN  IF text = << >> THEN done \o closed_run
        ELSE IF IsWordChar(Head(text))
        THEN phonetic_from(Tail(text), Append(run, Head(text)), done)
        ELSE phonetic_from(Tail(text), << >>, done \o closed_run \o << Head(text) >>)

normalize_aviation_numbers(text) ==
    join(fold_numbers(split(phonetic_from(text, << >>, << >>)), 1, << >>))

normalize_text(text) ==
    LET numbered == normalize_aviation_numbers(lower(text))
        no_hyphens == SelectSeq(numbered, LAMBDA ch : ch # "-")
        no_punctuation == SelectSeq(no_hyphens, LAMBDA ch : IsWordChar(ch) \/ IsSpace(ch))
    IN  join(split(no_punctuation))

-----------------------------------------------------------------------------
(* Edit distance and the two matchers of the backend *)

Min(a, b) == IF a < b THEN a ELSE b

(* an inner loop that would count a substitution as a deletion and an       *)
(* insertion                                                                *)
RECURSIVE levenshtein_row_indel(_, _, _, _)
levenshtein_row_indel(previous_row, c1, s2, current_row) ==
    IF Len(current_row) = Len(s2) + 1 THEN current_row
    ELSE LET j == Len(current_row)
             insertions == previous_row[j + 1] + 1
             deletions == current_row[j] + 1
             substitutions == previous_row[j] + (IF c1 # s2[j] THEN 2 ELSE 0)
         IN  levenshtein_row_indel(previous_row, c1, s2,
                 Append(current_row, Min(Min(insertions, deletions), substitutions)))

(* one pass of the inner loop of levenshtein_distance: current_row for the  *)
(* character c1 at index i of s1                                            *)
RECURSIVE levenshtein_row(_, _, _, _)
levenshtein_row(previous_row, c1, s2, current_row) ==
    IF Len(current_row) = Len(s2) + 1 THEN current_row
    ELSE LET j == Len(current_row)
             insertions == previous_row[j + 1] + 1
             deletions == current_row[j] + 1
             substitutions == previous_row[j] + (IF c1 # s2[j] THEN 1 ELSE 0)
         IN  levenshtein_row(previous_row, c1, s2,
                 Append(current_row, Min(Min(insertions, deletions), substitutions)))

(* the outer loop: previous_row = current_row after each pass, the row      *)
(* being complete before the next pass starts                               *)
RECURSIVE levenshtein_rows(_, _, _, _)
levenshtein_rows(s1, s2, i, previous_row) ==
    IF i > Len(s1) THEN previous_row[Len(previous_row)]
    ELSE LET current_row == levenshtein_row(previous_row, s1[i], s2, << i >>)
         IN  IF Len(current_row) = Len(s2) + 1
             THEN levenshtein_rows(s1, s2, i + 1, current_row)
             ELSE None

levenshtein_distance(s1, s2) ==
    LET long == IF Len(s1) < Len(s2) THEN s2 ELSE s1
        short == IF Len(s1) < Len(s2) THEN s1 ELSE s2
    IN  IF Len(short) = 0 THEN Len(long)
        ELSE levenshtein_rows(long, short, 1, [k \in 1..(Len(short) + 1) |-> k - 1])

(* similarities are fractions num/den with den > 0 *)
MATCH_THRESHOLD_NUM == 3
MATCH_THRESHOLD_DEN == 10
MATCH_THRESHOLD == [num |-> MATCH_THRESHOLD_NUM, den |-> MATCH_THRESHOLD_DEN]

Zero == [num |-> 0, den |-> 1]
(* a comparison that would let a later message of equal similarity win *)
greater_or_equal(a, b) == a.num * b.den >= b.num * a.den

Greater(a, b) == a.num * b.den > b.num * a.den
Less(a, b) == a.num * b.den < b.num * a.den

(* round(x, 4), in ten-thousandths *)
round4(x) == (20000 * x.num + x.den) \div (2 * x.den)

(* a similarity that would divide by the length of the reference *)
similarity_by_ground_truth(cleaned_ground_truth, cleaned_transcript) ==
    LET max_len == Len(cleaned_ground_truth)
        distance == levenshtein_distance(cleaned_ground_truth, cleaned_transcript)
    IN  IF max_len = 0 THEN [num |-> 1, den |-> 1]
        ELSE [num |-> max_len - distance, den |-> max_len]

(* 1.0 - distance / max_len, or 1.0 for two empty texts *)
similarity_of(cleaned_ground_truth, cleaned_transcript) ==
    LET max_len == IF Len(cleaned_ground_truth) > Len(cleaned_transcript)
                   THEN Len(cleaned_ground_truth) ELSE Len(cleaned_transcript)
        distance == levenshtein_distance(cleaned_ground_truth, cleaned_transcript)
    IN  IF max_len = 0 THEN [num |-> 1, den |-> 1]
        ELSE [num |-> max_len - distance, den |-> max_len]

(* the loop of best_match_similarity, idx counting from 0 *)
RECURSIVE best_match_loop(_, _, _, _, _)
best_match_loop(ground_truth_messages, idx, cleaned_transcript, best_similarity, best_index) ==
    IF idx >= Len(ground_truth_messages)
    THEN [best_similarity |-> best_similarity, best_index |-> best_index]
    ELSE LET similarity == similarity_of(normalize_text(ground_truth_messages[idx + 1]),
                                         cleaned_transcript)
         IN  IF Greater(similarity, best_similarity)
             THEN best_match_loop(ground_truth_messages, idx + 1, cleaned_transcript,
                                  similarity, idx)
             ELSE best_match_loop(ground_truth_messages, idx + 1, cleaned_transcript,
                                  best_similarity, best_index)

(* best_match_similarity (backend/services/evaluation_service.py) *)
best_match_similarity(transcript, ground_truth_messages, threshold) ==
    LET cleaned_transcript == normalize_text(transcript)
        best == best_match_loop(ground_truth_messages, 0, cleaned_transcript, Zero, -1)
    IN  IF cleaned_transcript = << >> THEN [similarity |-> None, index |-> -1]
        ELSE IF best.best_index = -1 \/ Less(best.best_similarity, threshold)
        THEN [similarity |-> None, index |-> -1]
        ELSE [similarity |-> round4(best.best_similarity), index |-> best.best_index]

(* the loop of evaluate_transcription *)
RECURSIVE evaluate_loop(_, _, _, _)
evaluate_loop(ground_truth_messages, idx, normalized_transcript, best) ==
    IF idx >= Len(ground_truth_messages) THEN best
    ELSE LET gt_message == ground_truth_messages[idx + 1]
             similarity == similarity_of(normalize_text(gt_message), normalized_transcript)
             scored == [best EXCEPT !.per_message_scores =
                           Append(@, [message_index |-> idx,
                                      message |-> gt_message,
                                      similarity |-> round4(similarity)])]
         IN  evaluate_loop(ground_truth_messages, idx + 1, normalized_transcript,
                 IF Greater(similarity, best.best_similarity)
                 THEN [scored EXCEPT !.best_similarity = similarity,
                                     !.best_match_index = idx,
                                     !.best_ground_truth = gt_message]
                 ELSE scored)

(* evaluate_transcription (backend/api/routes/asr.py), the Levenshtein path; *)
(* wer in ten-thousandths                                                    *)
evaluate_transcription(transcript, ground_truth_messages) ==
    LET normalized_transcript == normalize_text(transcript)
        best == evaluate_loop(ground_truth_messages, 0, normalized_transcript,
                              [best_similarity |-> Zero, best_match_index |-> -1,
                               best_ground_truth |-> << >>,
                               per_message_scores |-> << >>])
        normalized_gt == normalize_text(best.best_ground_truth)
        max_len == IF Len(normalized_gt) > Len(normalized_transcript)
                   THEN Len(normalized_gt) ELSE Len(normalized_transcript)
        edit_distance ==
            IF best.best_ground_truth = << >> THEN Len(normalized_transcript)
            ELSE IF max_len = 0 THEN 0
            ELSE levenshtein_distance(normalized_gt, normalized_transcript)
        wer == IF best.best_ground_truth = << >> THEN 10000
               ELSE IF max_len = 0 THEN 0
               ELSE round4([num |-> edit_distance, den |-> max_len])
    IN  [ wer |-> wer,
          similarity |-> round4(best.best_similarity),
          edit_distance |-> edit_distance,
          matched_message_index |-> best.best_match_index,
          matched_ground_truth |-> best.best_ground_truth,
          per_message_scores |-> best.per_message_scores ]

(* the texts the matchers are run on *)
TX_EMPTY == << >>
TX_HELLO_WORLD == << "h", "e", "l", "l", "o", " ", "w", "o", "r", "l", "d" >>
TX_CESSNA_WORDS == << "c", "e", "s", "s", "n", "a", " ", "f", "o", "u", "r", " ", "e", "i", "g", "h", "t", "y", " ", "o", "n", "e", ",", " ", "r", "e", "a", "d", "y" >>
TX_CESSNA_CAPS == << "C", "e", "s", "s", "n", "a", " ", "4", "8", "1", " ", "R", "e", "a", "d", "y", "." >>
TX_PUNCT == << "?", "!" >>
TX_ABCD == << "a", "b", "c", "d" >>
TX_RIDAL == << "r", "i", "d", "a", "l", " ", "t", "w", "o", " ", "t", "h", "o", "u", "s", "a", "n", "d", " ", "o", "n", "e", " ", "h", "u", "n", "d", "r", "e", "d" >>

GT_CESSNA == << "c", "e", "s", "s", "n", "a", " ", "4", "8", "1", " ", "r", "e", "a", "d", "y" >>
GT_AXYZ == << "a", "x", "y", "z" >>
GT_DASH == << "-" >>
GT_AB_CD == << "A", "-", "b", ",", " ", " ", "c", "d", "." >>
GT_RIDDLE == << "r", "i", "d", "d", "l", "e", " ", "2", "1", "0", "0" >>

TranscriptTexts ==
    { TX_EMPTY, TX_HELLO_WORLD, TX_CESSNA_WORDS, TX_CESSNA_CAPS, TX_PUNCT, TX_ABCD,
      TX_RIDAL }

(* the reference messages, "abcde" among them: as far from "abcd" as "A-b,  cd." is *)
GroundTruthTexts ==
    { GT_CESSNA, GT_AXYZ, GT_DASH, GT_AB_CD, GT_RIDDLE, << "a", "b", "c", "d", "e" >> }

MaxMessages == 2
MaxTextLen == 3     \* length of the strings the similarity is computed for
MaxWords == 3       \* length of the runs of number words that are folded
MaxContentLen == 7  \* length of the ground-truth texts that are split

GroundTruthLists ==
    UNION { [1..n -> GroundTruthTexts] : n \in 0..MaxMessages }

NoRequest == [transcript |-> << >>, ground_truth_messages |-> << >>]

NoCalc == [op |-> "none"]

-----------------------------------------------------------------------------
(* Initial state: the service constructed and started, under configuration c *)

Unlocked == 0

(* the backend after start-up: _asr_processes has no entry for the student,  *)
(* nothing was spawned, no request was received; touched_for is the number   *)
(* of processes spawned when the stop flag was last created (history) and    *)
(* stale whether a flag was on disk when the backend started (history)       *)
NoBackend ==
    [asr_processes |-> None, spawned |-> << >>, handlers |-> << >>,
     touched_for |-> 0, stale |-> FALSE]

(* the process inside service.start(), its _process_audio thread inside an  *)
(* iteration of its loop (segmenting); audio_failed is history              *)
Serving ==
    [state |-> "serving", audio_failed |-> FALSE, exit_code |-> None,
     segmenting |-> TRUE]

InitState(c) ==
    /\ cfg = c
    /\ running = TRUE
    /\ now = 0
    /\ captured = 0
    /\ audio_queue = << >>
    /\ ab = AudioBufferInit
    /\ closed = NoCall
    /\ tasks = << >>
    /\ model_lock = Unlocked
    /\ stop_flag = FALSE
    /\ iso_clock = 1
    /\ log_file = << >>
    /\ audio_dir = {}
    /\ posted = {}
    /\ process = Serving
    /\ backend = NoBackend

workerVars == << model_lock, stop_flag, iso_clock, log_file, audio_dir, posted >>
captureVars == << cfg, running, now, captured, audio_queue, ab, closed >>
matcherVars == << request, best_answer, eval_answer, calc >>

(* no transcript is being matched *)
MatcherIdle ==
    /\ request = NoRequest
    /\ best_answer = << >>
    /\ eval_answer = << >>
    /\ calc = NoCalc

-----------------------------------------------------------------------------
(* Audio capture and segmentation *)

(* the ticks between two callbacks: the frame period, or a late callback *)
FrameGaps == {1, 2}

(* the samples of the frames first..last, in capture order *)
FrameSamples(first, last) ==
    [k \in 1..((last - first + 1) * CHUNK_SIZE) |-> (first - 1) * CHUNK_SIZE + k]

(* queue.Queue(): the maxsize of audio_queue, 0 standing for no limit *)
maxsize == 0

(* Queue.full(), on which put() would block *)
full(q) == maxsize > 0 /\ Len(q) >= maxsize

(* _audio_callback: one frame, stamped with time.time(), is queued *)
AudioCallback ==
    /\ running
    /\ captured < MaxFrames
    /\ Len(audio_queue) < MaxQueue
    /\ ~full(audio_queue)
    /\ \E gap \in FrameGaps :
         /\ now' = now + gap
         /\ audio_queue' =
               Append(audio_queue,
                      [samples |-> FrameSamples(captured + 1, captured + 1),
                       ts |-> now + gap])
    /\ captured' = captured + 1
    /\ UNCHANGED << cfg, running, ab, closed, tasks, workerVars, matcherVars, process, backend >>

NoAudio == [n |-> 0, of |-> << >>]

(* the thread started for an utterance, at its first statement.  transcript *)
(* and confidence hold what transcribe returned and are kept as history, as *)
(* are the fields from outcome on; lock_at_spawn is the holder of the model *)
(* lock at the moment the thread was started                                *)
NewTask(result) ==
    [ pc |-> "check1",
      lock_at_spawn |-> model_lock,
      audio_data |-> result.audio,
      start_time |-> result.start_time,
      end_time |-> result.end_time,
      transcript |-> << >>,
      confidence |-> 0,
      timestamp_str |-> None,
      audio_file |-> None,
      entries |-> << >>,
      evaluation |-> NoEvaluation,
      outcome |-> "running",
      flag1 |-> "unchecked",
      flag2 |-> "unchecked",
      model_called |-> FALSE,
      model_raised |-> FALSE,
      wav |-> "none",
      appended |-> "no" ]

(* a thread that has returned: its locals are gone, its history stays *)
Ended(t, outcome) ==
    [t EXCEPT !.pc = "done",
              !.outcome = outcome,
              !.audio_data = NoAudio,
              !.timestamp_str = None,
              !.audio_file = None,
              !.entries = << >>,
              !.evaluation = NoEvaluation]

(* a loop that would call _transcribe_and_submit itself and take the next   *)
(* frame when it has returned                                               *)
transcription_awaited == \A i \in DOMAIN tasks : tasks[i].pc = "done"

(* threading.Thread(target=self._transcribe_and_submit, ...).start(): the   *)
(* loop goes on as soon as the thread is started                            *)
thread_started == TRUE

(* the _process_audio thread is inside an iteration, past `while            *)
(* self.running` and in or after audio_queue.get(timeout=1.0)               *)
InsideIteration == process.state = "serving" /\ process.segmenting

(* `while self.running`, read when an iteration has ended: the loop takes   *)
(* its next iteration or is left                                            *)
next_iteration(p) == [p EXCEPT !.segmenting = running]

(* _process_audio, one iteration that finds a frame: add_audio, and a       *)
(* thread is started for the utterance it returns; running is read again    *)
(* only when the iteration has ended                                        *)
ProcessAudio ==
    /\ InsideIteration
    /\ audio_queue # << >>
    /\ \E vad \in VadOutcomes :
         LET frame == Head(audio_queue)
             r == add_audio(ab, frame.samples, frame.ts, vad, cfg)
         IN  /\ ab' = r.ab
             /\ closed' = Observed(closed, ab, frame.samples, frame.ts, vad, cfg)
             /\ IF r.result.kind = "utterance"
                THEN /\ Len(tasks) < MaxTasks
                     /\ thread_started
                     /\ tasks' = Append(tasks, NewTask(r.result))
                ELSE tasks' = tasks
    /\ audio_queue' = Tail(audio_queue)
    /\ process' = next_iteration(process)
    /\ UNCHANGED << cfg, running, now, captured, workerVars, matcherVars,
                    backend >>

(* a loop without the handler: the exception ends the thread *)
error_propagates(p) == [p EXCEPT !.segmenting = FALSE]

(* except Exception: logging.error(...), and the loop goes to its test      *)
error_logged(p) == next_iteration(p)

(* where an iteration that has taken a frame can raise: inside add_audio    *)
(* when the utterance is built, or when the thread is started               *)
RaisePoints == {"add_audio", "thread_start"}

(* _process_audio, one iteration that finds a frame and ends in its         *)
(* handler: the utterance the frame closed is lost                          *)
ProcessAudioRaises ==
    /\ InsideIteration
    /\ audio_queue # << >>
    /\ \E vad \in VadOutcomes, point \in RaisePoints :
         LET frame == Head(audio_queue)
             r == add_audio(ab, frame.samples, frame.ts, vad, cfg)
         IN  /\ r.result.kind = "utterance"
             /\ ab' = IF point = "add_audio"
                       THEN add_audio_raised(ab, frame.samples, frame.ts, vad, cfg)
                       ELSE r.ab
             /\ closed' = [Observed(closed, ab, frame.samples, frame.ts, vad, cfg)
                             EXCEPT !.raised = "this"]
    /\ audio_queue' = Tail(audio_queue)
    /\ process' = error_logged(process)
    /\ UNCHANGED << cfg, running, now, captured, tasks, workerVars, matcherVars,
                    backend >>

(* _process_audio, one iteration that finds no frame: get() raises          *)
(* queue.Empty after its timeout and the loop continues                     *)
QueueEmpty ==
    /\ InsideIteration
    /\ audio_queue = << >>
    /\ process' = next_iteration(process)
    /\ UNCHANGED << captureVars, tasks, workerVars, matcherVars, backend >>

(* stop(), from the signal handler or from main's finally *)
Stop ==
    /\ running
    /\ running' = FALSE
    /\ UNCHANGED << cfg, now, captured, audio_queue, ab, closed, tasks, workerVars, matcherVars, process, backend >>

(* the frames of a speech region that _process_audio takes from the queue,  *)
(* as the VAD decides them: one frame that refills the VAD window, the      *)
(* frames with speech, and silence until the region closes                  *)
SpeechFrames == {1, 2}

RegionDecisions(speech_frames, c) ==
    << "silence" >> \o [k \in 1..speech_frames |-> "speech"]
                   \o [k \in 1..(c.SPEECH_TIMEOUT + 1) |-> "silence"]

(* add_audio called for the frames from `frame` on, stamped one tick apart  *)
(* from ts on, with the decisions vads: the buffer and the history after    *)
(* the last call                                                            *)
RECURSIVE feed_frames(_, _, _, _, _, _)
feed_frames(a, h, frame, ts, vads, c) ==
    LET r == add_audio(a, FrameSamples(frame, frame), ts, Head(vads), c)
        seen == Observed(h, a, FrameSamples(frame, frame), ts, Head(vads), c)
    IN  IF Len(vads) = 1 THEN [ab |-> r.ab, closed |-> seen]
        ELSE feed_frames(r.ab, seen, frame + 1, ts + 1, Tail(vads), c)

(* start(): opening the input stream, or the stream while it runs, raises;  *)
(* the handler logs the error and clears running                            *)
AudioCaptureFailed ==
    /\ running
    /\ process.state = "serving"
    /\ running' = FALSE
    /\ process' = [process EXCEPT !.audio_failed = TRUE]
    /\ UNCHANGED << cfg, now, captured, audio_queue, ab, closed, tasks, workerVars,
                    matcherVars, backend >>

(* the status main() leaves the interpreter with once start() has returned  *)
(* and the finally clause has called stop(): it falls off its end           *)
main_exit_code(audio_failed) == 0

(* start() returns after its loop saw running cleared, main() returns and   *)
(* the process exits                                                        *)
MainReturns ==
    /\ ~running
    /\ process.state = "serving"
    /\ process' = [process EXCEPT !.state = "exited",
                                  !.exit_code = main_exit_code(process.audio_failed)]
    /\ UNCHANGED << captureVars, tasks, workerVars, matcherVars, backend >>

(* The segmentation loop as the transcription threads see it: the           *)
(* iterations of _process_audio over the frames of one speech region, the   *)
(* frames captured on time and consumed as they arrive; add_audio returns   *)
(* the utterance on the last of them and its thread is started.             *)
EmissionEnabled(max_tasks) ==
    /\ running
    /\ Len(tasks) < max_tasks
    /\ thread_started
    /\ \E speech_frames \in SpeechFrames :
         feed_frames(ab, closed, captured + 1, now + 1,
                     RegionDecisions(speech_frames, cfg), cfg).closed.result.kind
            = "utterance"

UtteranceEmittedUpTo(max_tasks) ==
    /\ EmissionEnabled(max_tasks)
    /\ \E speech_frames \in SpeechFrames :
         LET vads == RegionDecisions(speech_frames, cfg)
             r == feed_frames(ab, closed, captured + 1, now + 1, vads, cfg)
         IN  /\ r.closed.result.kind = "utterance"
             /\ tasks' = Append(tasks, NewTask(r.closed.result))
             /\ ab' = r.ab
             /\ closed' = r.closed
             /\ now' = now + Len(vads)
             /\ captured' = captured + Len(vads)
    /\ UNCHANGED << cfg, running, audio_queue, workerVars, matcherVars, process, backend >>

UtteranceEmitted == UtteranceEmittedUpTo(MaxTasks)

-----------------------------------------------------------------------------
(* The stop flag, as the backend's handlers touch and unlink it *)

(* stop_buffered_recording: stop_flag_file.touch() *)
StopFlagTouch ==
    /\ ~stop_flag
    /\ stop_flag' = TRUE
    /\ UNCHANGED << matcherVars, process, backend, captureVars, tasks, model_lock, iso_clock, log_file, audio_dir,
                    posted >>

(* start_buffered_recording: stop_flag_file.unlink() when it exists *)
StopFlagUnlink ==
    /\ stop_flag
    /\ stop_flag' = FALSE
    /\ UNCHANGED << matcherVars, process, backend, captureVars, tasks, model_lock, iso_clock, log_file, audio_dir,
                    posted >>

-----------------------------------------------------------------------------
(* _transcribe_and_submit, one action per step of the thread *)

Running(i) == i \in DOMAIN tasks

(* a thread that would not look at the flag before transcribing *)
stop_check_1_skipped == FALSE

(* self.stop_flag_file.exists(), before transcription *)
stop_check_1 == stop_flag

(* self.stop_flag_file.exists(), before writing *)
stop_check_2 == stop_flag

(* a transcriber that would enter without the lock *)
lock_not_taken == TRUE

(* `with self.model_lock:` can be entered *)
lock_free == model_lock = Unlocked

(* a transcriber that would keep the lock when the model raises *)
lock_kept(holder) == holder

(* the end of `with self.model_lock:`, left by a return or by an exception  *)
lock_released(holder) == Unlocked

(* a transcriber that would return what it had assembled when it fails *)
transcribe_failed_partial(partial) == partial

(* the except branch of transcribe: what is returned when the model call or *)
(* the iteration over its segments raises, `partial` being what had been    *)
(* assembled from the segments so far                                       *)
transcribe_failed(partial) == [transcript |-> << >>, confidence |-> 0]

CheckStopFlag1(i) ==
    /\ Running(i)
    /\ tasks[i].pc = "check1"
    /\ LET t == [tasks[i] EXCEPT !.flag1 = IF stop_flag THEN "present" ELSE "absent"]
       IN  tasks' = [tasks EXCEPT
                       ![i] = IF stop_check_1 THEN Ended(t, "stopped_before")
                              ELSE [t EXCEPT !.pc = "acquire"]]
    /\ UNCHANGED << matcherVars, process, backend, captureVars, workerVars >>

(* transcribe: the model lock is taken *)
AcquireModelLock(i) ==
    /\ Running(i)
    /\ tasks[i].pc = "acquire"
    /\ lock_free
    /\ model_lock' = i
    /\ tasks' = [tasks EXCEPT ![i].pc = "model"]
    /\ UNCHANGED << matcherVars, process, backend, captureVars, stop_flag, iso_clock, log_file, audio_dir, posted >>

(* transcribe: self.model.transcribe(...) returns the segment generator, or *)
(* raises and the except branch returns with the lock released              *)
ModelTranscribe(i) ==
    /\ Running(i)
    /\ tasks[i].pc = "model"
    /\ \/ /\ tasks' = [tasks EXCEPT ![i].pc = "segments", ![i].model_called = TRUE]
          /\ UNCHANGED model_lock
       \/ LET r == transcribe_failed([transcript |-> << >>, confidence |-> 0])
          IN  /\ tasks' = [tasks EXCEPT ![i].pc = "gate",
                                        ![i].model_called = TRUE,
                                        ![i].model_raised = TRUE,
                                        ![i].transcript = r.transcript,
                                        ![i].confidence = r.confidence]
              /\ model_lock' = lock_released(model_lock)
    /\ UNCHANGED << matcherVars, process, backend, captureVars, stop_flag, iso_clock, log_file, audio_dir, posted >>

(* transcribe: the segments are consumed and the result is returned, or the *)
(* iteration raises; either way the lock is released                        *)
ConsumeSegments(i) ==
    /\ Running(i)
    /\ tasks[i].pc = "segments"
    /\ \E out \in ModelOutputs :
         \/ tasks' = [tasks EXCEPT ![i].pc = "gate",
                                   ![i].transcript = out.transcript,
                                   ![i].confidence = out.confidence]
         \/ LET r == transcribe_failed(out)
            IN  tasks' = [tasks EXCEPT ![i].pc = "gate",
                                       ![i].model_raised = TRUE,
                                       ![i].transcript = r.transcript,
                                       ![i].confidence = r.confidence]
    /\ model_lock' = lock_released(model_lock)
    /\ UNCHANGED << matcherVars, process, backend, captureVars, stop_flag, iso_clock, log_file, audio_dir, posted >>

(* the three filters *)
QualityGate(i) ==
    /\ Running(i)
    /\ tasks[i].pc = "gate"
    /\ LET verdict == quality_gate(tasks[i].transcript, tasks[i].confidence, cfg)
       IN  tasks' = [tasks EXCEPT
                       ![i] = IF verdict = "pass" THEN [@ EXCEPT !.pc = "check2"]
                              ELSE Ended(@, verdict)]
    /\ UNCHANGED << matcherVars, process, backend, captureVars, workerVars >>

CheckStopFlag2(i) ==
    /\ Running(i)
    /\ tasks[i].pc = "check2"
    /\ LET t == [tasks[i] EXCEPT !.flag2 = IF stop_flag THEN "present" ELSE "absent"]
       IN  tasks' = [tasks EXCEPT
                       ![i] = IF stop_check_2 THEN Ended(t, "stopped_after")
                              ELSE [t EXCEPT !.pc = "save"]]
    /\ UNCHANGED << matcherVars, process, backend, captureVars, workerVars >>

(* datetime.now() does not go back and can repeat a reading *)
IsoReadings == { t \in {iso_clock, iso_clock + 1} : t <= MaxIso }

(* the clips on disk after one is written under `name` *)
clip_written(name, utt) ==
    { f \in audio_dir : f.name # name } \cup { [name |-> name, utt |-> utt] }

(* timestamp_str = datetime.now().isoformat(); _save_audio_segment: no      *)
(* AUDIO_DIR, the clip written, or the write failing and None returned      *)
SaveAudioSegment(i) ==
    /\ Running(i)
    /\ tasks[i].pc = "save"
    /\ \E t \in IsoReadings :
         /\ iso_clock' = t
         /\ \/ /\ ~cfg.AUDIO_DIR
               /\ tasks' = [tasks EXCEPT ![i].pc = "append", ![i].timestamp_str = t]
               /\ UNCHANGED audio_dir
            \/ /\ cfg.AUDIO_DIR
               /\ audio_dir' = clip_written(t, i)
               /\ tasks' = [tasks EXCEPT ![i].pc = "append",
                                         ![i].timestamp_str = t,
                                         ![i].audio_file = t,
                                         ![i].wav = "written"]
            \/ /\ cfg.AUDIO_DIR
               /\ tasks' = [tasks EXCEPT ![i].pc = "append",
                                         ![i].timestamp_str = t,
                                         ![i].wav = "failed"]
               /\ UNCHANGED audio_dir
    /\ UNCHANGED << matcherVars, process, backend, captureVars, model_lock, stop_flag, log_file, posted >>

(* the log after a line is appended *)
appended_log(entry) == Append(log_file, entry)

(* a thread that would go on to the backend after a failed append *)
append_failed_goes_on(t) == [t EXCEPT !.pc = "submit", !.appended = "failed"]

(* the append raises: the thread ends in the handler of its outer try *)
append_failed(t) == Ended([t EXCEPT !.appended = "failed"], "error")

(* a statement of _transcribe_and_submit outside transcribe raises: the     *)
(* thread ends in the handler of its outer try, the model lock is not held  *)
TaskRaises(i) ==
    /\ Running(i)
    /\ tasks[i].pc # "done"
    /\ model_lock # i
    /\ tasks' = [tasks EXCEPT ![i] = Ended(@, "error")]
    /\ UNCHANGED << matcherVars, process, backend, captureVars, workerVars >>

(* jsonlines.open(self.log_file, mode="a"); writer.write(log_entry): the    *)
(* line is added, or the open or the write raises and the thread ends in    *)
(* its handler                                                              *)
AppendLogEntry(i) ==
    /\ Running(i)
    /\ tasks[i].pc = "append"
    /\ \/ /\ log_file' = appended_log(log_entry(tasks[i], i, cfg))
          /\ tasks' = [tasks EXCEPT ![i].pc = "submit", ![i].appended = "yes"]
       \/ /\ tasks' = [tasks EXCEPT ![i] = append_failed(@)]
          /\ UNCHANGED log_file
    /\ UNCHANGED << matcherVars, process, backend, captureVars, model_lock, stop_flag, iso_clock, audio_dir, posted >>

(* what requests.post can come to: no answer (connection error, timeout),   *)
(* an answer that is not 200, a 200 without evaluation, a 200 with one      *)
Responses ==
    { [kind |-> "failed", received |-> FALSE, evaluation |-> NoEvaluation],
      [kind |-> "failed", received |-> TRUE, evaluation |-> NoEvaluation],
      [kind |-> "not_200", received |-> TRUE, evaluation |-> NoEvaluation],
      [kind |-> "no_evaluation", received |-> TRUE, evaluation |-> NoEvaluation] }
    \cup { [kind |-> "evaluation", received |-> TRUE, evaluation |-> ev] :
              ev \in Evaluations }

(* a submission whose exception would leave _submit_to_backend *)
submit_failed_raises(t) == Ended(t, "error")

(* no answer, an answer that is not 200 or one without evaluation: a        *)
(* warning at most, and _submit_to_backend returns                          *)
submit_failed(t) == Ended(t, "logged")

(* _submit_to_backend up to the call of _update_jsonl_with_evaluation *)
SubmitToBackend(i) ==
    /\ Running(i)
    /\ tasks[i].pc = "submit"
    /\ IF ~cfg.SESSION_IDS
       THEN /\ tasks' = [tasks EXCEPT ![i] = Ended(@, "logged")]
            /\ UNCHANGED posted
       ELSE \E resp \in Responses :
              /\ posted' = IF resp.received THEN posted \cup {i} ELSE posted
              /\ tasks' =
                   IF resp.kind = "evaluation"
                   THEN [tasks EXCEPT ![i].pc = "update_read",
                                      ![i].evaluation = resp.evaluation]
                   ELSE [tasks EXCEPT ![i] = submit_failed(@)]
    /\ UNCHANGED << matcherVars, process, backend, captureVars, model_lock, stop_flag, iso_clock, log_file, audio_dir >>

(* _update_jsonl_with_evaluation: the file is read and the entry with the   *)
(* timestamp is updated in memory; a line that does not parse raises        *)
UpdateRead(i) ==
    /\ Running(i)
    /\ tasks[i].pc = "update_read"
    /\ LET readable == \A k \in 1..Len(log_file) : ~log_file[k].torn
           updated == FirstWithTimestamp(log_file, tasks[i].timestamp_str) # 0
       IN  tasks' =
             IF readable /\ updated
             THEN [tasks EXCEPT
                     ![i].pc = "update_open",
                     ![i].entries = update_entries(log_file, tasks[i].timestamp_str,
                                                   tasks[i].evaluation)]
             ELSE [tasks EXCEPT ![i] = Ended(@, "logged")]
    /\ UNCHANGED << matcherVars, process, backend, captureVars, workerVars >>

(* jsonlines.open(self.log_file, mode="w"): the file is truncated *)
UpdateOpen(i) ==
    /\ Running(i)
    /\ tasks[i].pc = "update_open"
    /\ log_file' = << >>
    /\ tasks' = [tasks EXCEPT ![i].pc = "update_write"]
    /\ UNCHANGED << matcherVars, process, backend, captureVars, model_lock, stop_flag, iso_clock, audio_dir, posted >>

(* the entries are written and the writer is closed: the buffered lines     *)
(* reach the file from offset 0, over whatever was appended to it since it  *)
(* was truncated                                                            *)
UpdateWrite(i) ==
    /\ Running(i)
    /\ tasks[i].pc = "update_write"
    /\ \E keep \in 0..Len(log_file) :
         log_file' = overwritten(log_file, tasks[i].entries, keep)
    /\ tasks' = [tasks EXCEPT ![i] = Ended(@, "logged")]
    /\ UNCHANGED << matcherVars, process, backend, captureVars, model_lock, stop_flag, iso_clock, audio_dir, posted >>

-----------------------------------------------------------------------------
(* The transcription threads of one session *)

Init == MatcherIdle /\ \E c \in SessionConfigs : InitState(c)

Next ==
    \/ UtteranceEmitted
    \/ Stop
    \/ StopFlagTouch
    \/ StopFlagUnlink
    \/ \E i \in 1..MaxTasks : CheckStopFlag1(i)
    \/ \E i \in 1..MaxTasks : AcquireModelLock(i)
    \/ \E i \in 1..MaxTasks : ModelTranscribe(i)
    \/ \E i \in 1..MaxTasks : ConsumeSegments(i)
    \/ \E i \in 1..MaxTasks : QualityGate(i)
    \/ \E i \in 1..MaxTasks : CheckStopFlag2(i)
    \/ \E i \in 1..MaxTasks : SaveAudioSegment(i)
    \/ \E i \in 1..MaxTasks : AppendLogEntry(i)
    \/ \E i \in 1..MaxTasks : SubmitToBackend(i)
    \/ \E i \in 1..MaxTasks : UpdateRead(i)
    \/ \E i \in 1..MaxTasks : UpdateOpen(i)
    \/ \E i \in 1..MaxTasks : UpdateWrite(i)

Spec == Init /\ [][Next]_vars

(* The threads of one session around the model lock, under the default      *)
(* configuration: up to MaxThreads of them, each followed from its start    *)
(* until transcribe has returned                                            *)

InitLock == MatcherIdle /\ InitState(DefaultConfig)

UtteranceEmittedForLock == UtteranceEmittedUpTo(MaxThreads)

NextLock ==
    \/ UtteranceEmittedForLock
    \/ Stop
    \/ \E i \in 1..MaxThreads : CheckStopFlag1(i)
    \/ \E i \in 1..MaxThreads : AcquireModelLock(i)
    \/ \E i \in 1..MaxThreads : ModelTranscribe(i)
    \/ \E i \in 1..MaxThreads : ConsumeSegments(i)

SpecLock == InitLock /\ [][NextLock]_vars

(* One thread merging the evaluation it received into a log that no other   *)
(* thread writes: the lines on disk, the timestamp and the evaluation are   *)
(* drawn, and kept in calc as they were before the merge                    *)

MergeTimestamps == {1, 2}

(* a line as _transcribe_and_submit appends it *)
WholeLine(utt, timestamp) ==
    log_entry([start_time |-> 0, end_time |-> 1, transcript |-> T_GOOD,
               confidence |-> 900, timestamp_str |-> timestamp, audio_file |-> None],
              utt, DefaultConfig)

(* a line into which an evaluation was merged before *)
EvaluatedLine(utt, timestamp) ==
    [WholeLine(utt, timestamp) EXCEPT
       !.keys = @ \cup {"similarity_score", "wer", "matched_ground_truth"},
       !.evaluation = [similarity |-> 5000, wer |-> 5000, matched_ground_truth |-> TRUE]]

MergeLines ==
    { WholeLine(utt, t) : utt \in {1, 2}, t \in MergeTimestamps }
       \cup { EvaluatedLine(utt, t) : utt \in {1, 2}, t \in MergeTimestamps }
       \cup { TornLine }

MergeLogs == UNION { [1..n -> MergeLines] : n \in 0..MaxLines }

(* the merging thread is the first and only entry of tasks *)
InitMerge ==
    /\ cfg = DefaultConfig
    /\ running = TRUE
    /\ now = 0
    /\ captured = 0
    /\ audio_queue = << >>
    /\ ab = AudioBufferInit
    /\ closed = NoCall
    /\ model_lock = Unlocked
    /\ stop_flag = FALSE
    /\ iso_clock = 1
    /\ audio_dir = {}
    /\ posted = {1}
    /\ process = Serving
    /\ backend = NoBackend
    /\ request = NoRequest
    /\ best_answer = << >>
    /\ eval_answer = << >>
    /\ \E log \in MergeLogs, timestamp \in MergeTimestamps, ev \in Evaluations :
         /\ log_file = log
         /\ calc = [op |-> "merge", log |-> log, timestamp |-> timestamp,
                    evaluation |-> ev]
         /\ tasks = << [NewTask([audio |-> NoAudio, start_time |-> 0, end_time |-> 1])
                          EXCEPT !.pc = "update_read",
                                 !.transcript = T_GOOD,
                                 !.confidence = 900,
                                 !.timestamp_str = timestamp,
                                 !.evaluation = ev,
                                 !.flag1 = "absent",
                                 !.flag2 = "absent",
                                 !.model_called = TRUE,
                                 !.appended = "yes"] >>

NextMerge ==
    \/ UpdateRead(1)
    \/ UpdateOpen(1)
    \/ UpdateWrite(1)

SpecMerge == InitMerge /\ [][NextMerge]_vars

(* The threads of a session with the defaults and no stop request, each     *)
(* scheduled again and again as long as it can take a step, every call of   *)
(* the model returning or raising                                           *)

ThreadStep(i) ==
    \/ CheckStopFlag1(i)
    \/ AcquireModelLock(i)
    \/ ModelTranscribe(i)
    \/ ConsumeSegments(i)
    \/ QualityGate(i)
    \/ CheckStopFlag2(i)
    \/ SaveAudioSegment(i)
    \/ AppendLogEntry(i)
    \/ SubmitToBackend(i)
    \/ UpdateRead(i)
    \/ UpdateOpen(i)
    \/ UpdateWrite(i)

NextLive ==
    \/ UtteranceEmitted
    \/ \E i \in 1..MaxTasks : ThreadStep(i)

SpecLive ==
    /\ InitLock
    /\ [][NextLive]_vars
    /\ \A i \in 1..MaxTasks : WF_vars(ThreadStep(i))

(* Capture and segmentation with iterations and threads that end in their   *)
(* exception handlers                                                       *)

InitFault == MatcherIdle /\ InitState(DefaultConfig)

NextFault ==
    \/ AudioCallback
    \/ ProcessAudio
    \/ ProcessAudioRaises
    \/ QueueEmpty
    \/ Stop
    \/ \E i \in 1..MaxTasks : TaskRaises(i)

SpecFault == InitFault /\ [][NextFault]_vars

(* Capture and segmentation of one session, the threads it starts left      *)
(* unscheduled                                                              *)

InitSeg == MatcherIdle /\ \E c \in SegmenterConfigs : InitState(c)

NextSeg ==
    \/ AudioCallback
    \/ ProcessAudio
    \/ QueueEmpty
    \/ Stop
    \/ AudioCaptureFailed
    \/ MainReturns

SpecSeg == InitSeg /\ [][NextSeg]_vars

-----------------------------------------------------------------------------
(* The routes start-buffered-recording and stop-buffered-recording of the   *)
(* backend (backend/api/routes/asr.py) for one student, and the processes   *)
(* they spawn and signal.  The handlers are coroutines of one event loop:   *)
(* a handler runs alone between two of its awaits, the spawned processes    *)
(* run beside it all the time.                                              *)

recordingVars ==
    << captureVars, tasks, model_lock, iso_clock, log_file, audio_dir, posted,
       process, matcherVars >>

(* what subprocess.Popen starts: the launcher start_vr_asr.py and, as its   *)
(* child in the same process group, the service asr_service_vr.py.          *)
(* service is "loading" until __init__ has removed the flag and registered  *)
(* the signal handlers, "ready" until start() sets running, then "serving". *)
(* first_task is what the first utterance thread found at the stop flag,    *)
(* flag_from the touched_for of the flag it found (history).                *)
Popen ==
    [launcher |-> "alive", service |-> "loading", first_task |-> "none",
     flag_from |-> None]

(* a request being handled, suspended at its first await; touch, signalled, *)
(* tracked, killed and left_entry are history                               *)
Handler(kind) ==
    [kind |-> kind, pc |-> "await", outcome |-> "running", touch |-> "none",
     signalled |-> FALSE, tracked |-> FALSE, killed |-> FALSE,
     left_entry |-> FALSE]

Returned(handler, outcome) == [handler EXCEPT !.pc = "done", !.outcome = outcome]

(* no handler is between two awaits: the event loop can run another one *)
LoopFree ==
    \A h \in DOMAIN backend.handlers : backend.handlers[h].pc \in {"await", "done"}

(* existing_process.poll() is None *)
poll_is_none(proc) == proc.launcher = "alive"

(* the process has a part that still runs *)
Alive(proc) == proc.launcher = "alive" \/ proc.service # "dead"

(* SIGTERM at the service: the default action until the handlers are        *)
(* registered (line 438-439); then _signal_handler calls stop(), which      *)
(* clears running: the main loop of a serving process ends, but start()     *)
(* sets running after it (line 795), so a process not yet serving goes on.  *)
signal_handler(service) == IF service = "ready" THEN "ready" ELSE "dead"

(* pkill -f "asr_service_vr.py.*{student_id}": SIGTERM at every service *)
pkill(spawned) ==
    [p \in DOMAIN spawned |-> [spawned[p] EXCEPT !.service = signal_handler(@)]]

(* a process matches pkill's pattern "asr_service_vr.py.*{student_id}" *)
pgrep_service(spawned) == \E p \in DOMAIN spawned : spawned[p].service # "dead"

(* pgrep -f "start_vr_asr.py.*{student_id}" prints a pid *)
pgrep(spawned) == \E p \in DOMAIN spawned : spawned[p].launcher = "alive"

(* _setup_logging's stop_flag_file.unlink(): the flag after it *)
setup_logging_keeps_flag(flag) == flag
setup_logging(flag) == FALSE

(* del _asr_processes[student_id]: the table after it *)
entry_kept(asr_processes) == asr_processes
untrack(asr_processes) == None

(* start-buffered-recording up to its first await (lines 471-493): an entry *)
(* whose process lives answers the request, a dead one is removed           *)
StartRequest ==
    /\ Len(backend.handlers) < MaxRequests
    /\ LoopFree
    /\ LET running_already ==
               /\ backend.asr_processes # None
               /\ poll_is_none(backend.spawned[backend.asr_processes])
       IN  backend' =
             [backend EXCEPT
                !.handlers =
                    Append(@, IF running_already
                              THEN Returned(Handler("start"), "already_running")
                              ELSE Handler("start")),
                !.asr_processes = IF running_already THEN @ ELSE None]
    /\ UNCHANGED << stop_flag, recordingVars >>

(* start-buffered-recording after its awaits (lines 496-600), one segment   *)
(* without await.  fault: the flag's unlink raises (logged, 503-508), pgrep *)
(* raises (logged, 554-555), or anything else does (HTTP 500, 592-601).     *)
StartSpawn(h) ==
    /\ h \in DOMAIN backend.handlers
    /\ backend.handlers[h].kind = "start"
    /\ backend.handlers[h].pc = "await"
    /\ LoopFree
    /\ \E fault \in {"none", "unlink", "pgrep", "error"} :
         /\ fault = "unlink" => stop_flag
         /\ IF fault = "error"
            THEN /\ backend' = [backend EXCEPT
                        !.handlers[h] = Returned(@, "error")]
                 /\ UNCHANGED stop_flag
            ELSE /\ stop_flag' = (fault = "unlink")
                 /\ IF fault # "pgrep" /\ pgrep(backend.spawned)
                    THEN backend' = [backend EXCEPT
                             !.handlers[h] = Returned(@, "already_running")]
                    ELSE /\ Len(backend.spawned) < MaxSpawns
                         /\ backend' = [backend EXCEPT
                              !.spawned = Append(@, Popen),
                              !.asr_processes = Len(backend.spawned) + 1,
                              !.handlers[h] = Returned(@, "started")]
    /\ UNCHANGED recordingVars

(* stop-buffered-recording is called and suspends at its await (line 611) *)
StopRequest ==
    /\ Len(backend.handlers) < MaxRequests
    /\ backend' = [backend EXCEPT !.handlers = Append(@, Handler("stop"))]
    /\ UNCHANGED << stop_flag, recordingVars >>

(* lines 611-618: the await returns or raises (HTTP 500); touch() creates   *)
(* the flag, or raises and is logged                                        *)
StopTouch(h) ==
    /\ h \in DOMAIN backend.handlers
    /\ backend.handlers[h].kind = "stop"
    /\ backend.handlers[h].pc = "await"
    /\ LoopFree
    /\ \E fault \in {"none", "touch", "error"} :
         CASE fault = "none" ->
                /\ stop_flag' = TRUE
                /\ backend' = [backend EXCEPT
                       !.handlers[h] = [@ EXCEPT !.pc = "touched",
                                                 !.touch = "created"],
                       !.touched_for = Len(backend.spawned)]
           [] fault = "touch" ->
                /\ backend' = [backend EXCEPT
                       !.handlers[h] = [@ EXCEPT !.pc = "touched",
                                                 !.touch = "failed"]]
                /\ UNCHANGED stop_flag
           [] fault = "error" ->
                /\ backend' = [backend EXCEPT
                       !.handlers[h] = Returned(@, "error")]
                /\ UNCHANGED stop_flag
    /\ UNCHANGED recordingVars

(* lines 620-651.  Without an entry: pkill, and the request is answered.    *)
(* With one: SIGTERM at the process group, or, when killpg raises, at the   *)
(* launcher alone (terminate); the launcher ends on it or takes its time.   *)
(* signalled: a signal was sent to a process that was there to receive it.  *)
StopSignal(h) ==
    /\ h \in DOMAIN backend.handlers
    /\ backend.handlers[h].kind = "stop"
    /\ backend.handlers[h].pc = "touched"
    /\ IF backend.asr_processes = None
       THEN \E raised \in BOOLEAN :
              backend' = [backend EXCEPT
                  !.spawned = IF raised THEN @ ELSE pkill(@),
                  !.handlers[h] =
                      [Returned(@, "success") EXCEPT
                          !.signalled = ~raised /\ pgrep_service(backend.spawned)]]
       ELSE LET p == backend.asr_processes
            IN  \E sent \in {"killpg", "terminate", "error"},
                   launcher \in {"alive", "dead"} :
                  IF sent = "error"
                  THEN /\ launcher = "alive"
                       /\ backend' = [backend EXCEPT
                            !.handlers[h] =
                                [Returned(@, "error") EXCEPT
                                    !.tracked = TRUE, !.left_entry = TRUE]]
                  ELSE /\ poll_is_none(backend.spawned[p]) \/ launcher = "dead"
                       /\ backend' = [backend EXCEPT
                            !.spawned[p] =
                                [@ EXCEPT !.launcher = launcher,
                                          !.service = IF sent = "killpg"
                                                      THEN signal_handler(@)
                                                      ELSE @],
                            !.handlers[h] =
                                [@ EXCEPT !.pc = "wait", !.tracked = TRUE,
                                          !.signalled = Alive(backend.spawned[p])]]
    /\ UNCHANGED << stop_flag, recordingVars >>

(* lines 653-682: wait(timeout=3); a launcher that still runs is killed,    *)
(* with its group or, when killpg raises, alone; pkill once more; the entry *)
(* is removed and the request answered                                      *)
StopWait(h) ==
    /\ h \in DOMAIN backend.handlers
    /\ backend.handlers[h].kind = "stop"
    /\ backend.handlers[h].pc = "wait"
    /\ LET p == backend.asr_processes
           timeout == poll_is_none(backend.spawned[p])
       IN  \E sent \in {"killpg", "kill"}, raised \in BOOLEAN :
             /\ ~timeout => sent = "killpg"
             /\ LET killed == [backend.spawned EXCEPT
                                 ![p] = [@ EXCEPT
                                     !.launcher = "dead",
                                     !.service = IF timeout /\ sent = "killpg"
                                                 THEN "dead" ELSE @]]
                    table == untrack(backend.asr_processes)
                IN  backend' = [backend EXCEPT
                        !.spawned = IF raised THEN killed ELSE pkill(killed),
                        !.asr_processes = table,
                        !.handlers[h] =
                            [Returned(@, "success") EXCEPT
                                !.killed = timeout,
                                !.left_entry = (table # None)]]
    /\ UNCHANGED << stop_flag, recordingVars >>

(* the service's __init__ reaches _setup_logging (line 435): an existing    *)
(* flag is removed, or unlink raises and the process ends; then the signal  *)
(* handlers are registered                                                  *)
SetupLogging(p) ==
    /\ p \in DOMAIN backend.spawned
    /\ backend.spawned[p].service = "loading"
    /\ \E raised \in BOOLEAN :
         /\ raised => stop_flag
         /\ IF raised
            THEN /\ backend' = [backend EXCEPT !.spawned[p].service = "dead"]
                 /\ UNCHANGED stop_flag
            ELSE /\ backend' = [backend EXCEPT !.spawned[p].service = "ready"]
                 /\ stop_flag' = IF stop_flag THEN setup_logging(stop_flag)
                                 ELSE FALSE
    /\ UNCHANGED recordingVars

(* service.start() sets running (line 795) and starts the audio thread *)
ServiceStart(p) ==
    /\ p \in DOMAIN backend.spawned
    /\ backend.spawned[p].service = "ready"
    /\ backend' = [backend EXCEPT !.spawned[p].service = "serving"]
    /\ UNCHANGED << stop_flag, recordingVars >>

(* the first utterance thread of the process reads the stop flag (577) *)
FirstTask(p) ==
    /\ p \in DOMAIN backend.spawned
    /\ backend.spawned[p].service = "serving"
    /\ backend.spawned[p].first_task = "none"
    /\ backend' = [backend EXCEPT
          !.spawned[p] = [@ EXCEPT
              !.first_task = IF stop_flag THEN "present" ELSE "absent",
              !.flag_from = IF stop_flag THEN backend.touched_for ELSE None]]
    /\ UNCHANGED << stop_flag, recordingVars >>

(* the audio stream fails and main returns (lines 838-840, 920-930) *)
ServiceExits(p) ==
    /\ p \in DOMAIN backend.spawned
    /\ backend.spawned[p].service = "serving"
    /\ backend' = [backend EXCEPT !.spawned[p].service = "dead"]
    /\ UNCHANGED << stop_flag, recordingVars >>

(* subprocess.run in the launcher returns once the service has ended *)
LauncherExits(p) ==
    /\ p \in DOMAIN backend.spawned
    /\ backend.spawned[p].service = "dead"
    /\ backend.spawned[p].launcher = "alive"
    /\ backend' = [backend EXCEPT !.spawned[p].launcher = "dead"]
    /\ UNCHANGED << stop_flag, recordingVars >>

(* the backend has started; a flag of an earlier session may be on disk *)
InitBackend ==
    /\ MatcherIdle
    /\ cfg = DefaultConfig
    /\ running = TRUE
    /\ now = 0
    /\ captured = 0
    /\ audio_queue = << >>
    /\ ab = AudioBufferInit
    /\ closed = NoCall
    /\ tasks = << >>
    /\ model_lock = Unlocked
    /\ stop_flag \in BOOLEAN
    /\ iso_clock = 1
    /\ log_file = << >>
    /\ audio_dir = {}
    /\ posted = {}
    /\ process = Serving
    /\ backend = [NoBackend EXCEPT !.stale = stop_flag]

NextBackend ==
    \/ StartRequest
    \/ StopRequest
    \/ \E h \in 1..MaxRequests :
         StartSpawn(h) \/ StopTouch(h) \/ StopSignal(h) \/ StopWait(h)
    \/ \E p \in 1..MaxSpawns :
         \/ SetupLogging(p)
         \/ ServiceStart(p)
         \/ FirstTask(p)
         \/ ServiceExits(p)
         \/ LauncherExits(p)

SpecBackend == InitBackend /\ [][NextBackend]_vars

-----------------------------------------------------------------------------
(* The matchers of the backend, each run once on a transcript and a list of *)
(* reference messages                                                       *)

Requests ==
    { [transcript |-> t, ground_truth_messages |-> g] :
         t \in TranscriptTexts, g \in GroundTruthLists }

(* aggregate_video_message_scores calls best_match_similarity with the      *)
(* default threshold                                                        *)
BestMatchSimilarity ==
    /\ best_answer = << >>
    /\ best_answer' = << best_match_similarity(request.transcript,
                                                request.ground_truth_messages,
                                                MATCH_THRESHOLD) >>
    /\ UNCHANGED << captureVars, process, backend, tasks, workerVars, request, eval_answer, calc >>

(* submit_asr_result and evaluate_transcript call evaluate_transcription *)
EvaluateTranscription ==
    /\ eval_answer = << >>
    /\ eval_answer' = << evaluate_transcription(request.transcript,
                                                 request.ground_truth_messages) >>
    /\ UNCHANGED << captureVars, process, backend, tasks, workerVars, request, best_answer, calc >>

InitMatch ==
    /\ InitState(DefaultConfig)
    /\ request \in Requests
    /\ best_answer = << >>
    /\ eval_answer = << >>
    /\ calc = NoCalc

NextMatch ==
    \/ BestMatchSimilarity
    \/ EvaluateTranscription

SpecMatch == InitMatch /\ [][NextMatch]_vars

-----------------------------------------------------------------------------
(* The text functions of the evaluation, each applied to one input          *)

(* the texts normalize_text is applied to: those of the matchers, and       *)
(* "rid-al", "four. one, two" and "two-thousand"                            *)
NormalizeInputs ==
    TranscriptTexts \cup GroundTruthTexts
       \cup { << "r", "i", "d", "-", "a", "l" >>,
              << "f", "o", "u", "r", ".", " ", "o", "n", "e", ",", " ", "t", "w", "o" >>,
              << "t", "w", "o", "-", "t", "h", "o", "u", "s", "a", "n", "d" >> }

(* the strings the similarity is computed for: all over two letters *)
SimilarityInputs == UNION { [1..n -> {"a", "b"}] : n \in 0..MaxTextLen }

(* the delimiter of the messages in a ground-truth text *)
DELIMITER == << "-", "-", "-" >>

(* content.split("---"): the pieces between the occurrences of the          *)
(* delimiter, found from left to right                                      *)
RECURSIVE split_delimiter(_, _, _)
split_delimiter(text, piece, pieces) ==
    IF text = << >> THEN Append(pieces, piece)
    ELSE IF Len(text) >= Len(DELIMITER) /\ SubSeq(text, 1, Len(DELIMITER)) = DELIMITER
    THEN split_delimiter(SubSeq(text, Len(DELIMITER) + 1, Len(text)), << >>,
                         Append(pieces, piece))
    ELSE split_delimiter(Tail(text), Append(piece, Head(text)), pieces)

(* [msg.strip() for msg in content.split("---") if msg.strip()], as in      *)
(* get_video_ground_truth and evaluate_transcript; no message stands for    *)
(* None                                                                     *)
ground_truth_messages(content) ==
    LET pieces == split_delimiter(Strip(content), << >>, << >>)
    IN  SelectSeq([k \in 1..Len(pieces) |-> Strip(pieces[k])],
                  LAMBDA msg : msg # << >>)

(* the ground-truth texts: letters, hyphens and line ends *)
GroundTruthContents == UNION { [1..n -> {"a", "-", "\n"}] : n \in 0..MaxContentLen }

(* the runs of number words normalize_aviation_numbers can collect: all up *)
(* to MaxWords words, and one thousand one hundred                         *)
NumberRuns ==
    UNION { [1..n -> number_words_set] : n \in 1..MaxWords }
       \cup { << W_ONE, W_THOUSAND, W_ONE, W_HUNDRED >> }

Calculations ==
    { [op |-> "normalize_text", text |-> t, out |-> << >>] : t \in NormalizeInputs }
       \cup { [op |-> "words_to_number", words |-> w, out |-> << >>] : w \in NumberRuns }
       \cup { [op |-> "ground_truth", content |-> c, out |-> << >>] :
                 c \in GroundTruthContents }
       \cup { [op |-> "similarity", a |-> a, b |-> b, out |-> << >>] :
                 a \in SimilarityInputs, b \in SimilarityInputs }
       \cup { [op |-> "levenshtein_distance", s1 |-> a, s2 |-> b, out |-> << >>] :
                 a \in SimilarityInputs, b \in SimilarityInputs }

(* normalize_text applied to the text, then to its own result *)
NormalizeText ==
    /\ calc.op = "normalize_text"
    /\ Len(calc.out) < 2
    /\ calc' = [calc EXCEPT !.out =
                   Append(@, normalize_text(IF @ = << >> THEN calc.text ELSE @[Len(@)]))]
    /\ UNCHANGED << captureVars, process, backend, tasks, workerVars, request, best_answer,
                    eval_answer >>

(* the similarity of the matchers computed for a and b, then for b and a *)
Similarity ==
    /\ calc.op = "similarity"
    /\ Len(calc.out) < 2
    /\ calc' = [calc EXCEPT !.out =
                   Append(@, IF @ = << >> THEN similarity_of(calc.a, calc.b)
                             ELSE similarity_of(calc.b, calc.a))]
    /\ UNCHANGED << captureVars, process, backend, tasks, workerVars, request, best_answer,
                    eval_answer >>

(* levenshtein_distance computed for s1 and s2 *)
LevenshteinDistance ==
    /\ calc.op = "levenshtein_distance"
    /\ calc.out = << >>
    /\ calc' = [calc EXCEPT !.out = << levenshtein_distance(calc.s1, calc.s2) >>]
    /\ UNCHANGED << captureVars, process, backend, tasks, workerVars, request, best_answer,
                    eval_answer >>

(* words_to_number applied to a run of number words *)
WordsToNumber ==
    /\ calc.op = "words_to_number"
    /\ calc.out = << >>
    /\ calc' = [calc EXCEPT !.out = << words_to_number(calc.words) >>]
    /\ UNCHANGED << captureVars, process, backend, tasks, workerVars, request, best_answer,
                    eval_answer >>

(* the reference messages are taken from a ground-truth text *)
GetGroundTruth ==
    /\ calc.op = "ground_truth"
    /\ calc.out = << >>
    /\ calc' = [calc EXCEPT !.out = << ground_truth_messages(calc.content) >>]
    /\ UNCHANGED << captureVars, process, backend, tasks, workerVars, request, best_answer,
                    eval_answer >>

InitText ==
    /\ InitState(DefaultConfig)
    /\ request = NoRequest
    /\ best_answer = << >>
    /\ eval_answer = << >>
    /\ calc \in Calculations

NextText ==
    \/ NormalizeText
    \/ Similarity
    \/ LevenshteinDistance
    \/ WordsToNumber
    \/ GetGroundTruth

SpecText == InitText /\ [][NextText]_vars

-----------------------------------------------------------------------------
(* Properties of the transcription threads, under Spec *)

LinePresent(i) == \E k \in 1..Len(log_file) : ~log_file[k].torn /\ log_file[k].utt = i

ClipPresent(i) == \E f \in audio_dir : f.utt = i

NothingWritten(i) ==
    /\ tasks[i].wav = "none"
    /\ tasks[i].appended = "no"
    /\ i \notin posted
    /\ ~LinePresent(i)
    /\ ~ClipPresent(i)

(* C1: once the stop flag is present and stays present, no utterance's line *)
(* is appended to the log: a step that starts and ends with the flag        *)
(* present appends no line.                                                 *)
C1_NoAppendWhileFlagged ==
    [][ (stop_flag /\ stop_flag') =>
          \A i \in DOMAIN tasks :
             tasks[i].appended = "no" => tasks'[i].appended # "yes" ]_vars

(* C2: a thread whose first check finds the stop flag ends without calling  *)
(* the model, writing a clip, appending a line or submitting; a thread      *)
(* whose second check finds it ends without clip, line or submission.       *)
C2_FlagObservedDiscards ==
    \A i \in DOMAIN tasks :
       /\ tasks[i].flag1 = "present" =>
             /\ tasks[i].pc = "done"
             /\ ~tasks[i].model_called
             /\ NothingWritten(i)
       /\ tasks[i].flag2 = "present" =>
             /\ tasks[i].pc = "done"
             /\ tasks[i].model_called
             /\ NothingWritten(i)

(* a thread stopped at its first check and a thread stopped at its second *)
C2_Witness ==
    \E i, j \in DOMAIN tasks :
       /\ tasks[i].flag1 = "present" /\ tasks[i].outcome = "stopped_before"
       /\ tasks[j].flag2 = "present" /\ tasks[j].outcome = "stopped_after"

InsideTranscribe(i) == tasks[i].pc \in {"model", "segments"}

(* C3: at most one thread is inside the model's transcribe call, from the   *)
(* call itself to the end of the consumption of its segments.               *)
C3_OneThreadInsideModel ==
    /\ Cardinality({ i \in DOMAIN tasks : InsideTranscribe(i) }) <= 1
    /\ \A i \in DOMAIN tasks : InsideTranscribe(i) <=> model_lock = i

(* one thread consumes segments while another waits for the lock *)
C3_Witness ==
    \E i, j \in DOMAIN tasks :
       tasks[i].pc = "segments" /\ tasks[j].pc = "acquire"

RewriteInProgress == \E i \in DOMAIN tasks : tasks[i].pc = "update_write"

(* C4: a line that a thread has appended to the log is in the log in every  *)
(* later state; stated for the states in which no thread has the file open  *)
(* for rewriting, where the claim requires it a fortiori.                   *)
C4_AppendedLineStays ==
    ~RewriteInProgress =>
       \A i \in DOMAIN tasks : tasks[i].appended = "yes" => LinePresent(i)

WholeRecord(line) == ~line.torn /\ RequiredKeys \subseteq line.keys

(* C5: in every state the log is a sequence of whole records, each with     *)
(* start, end, transcript, confidence and session_id, and no line written   *)
(* before is missing from it: it holds as many lines as were appended.      *)
C5_LogIsWholeRecords ==
    /\ \A k \in 1..Len(log_file) : WholeRecord(log_file[k])
    /\ Len(log_file) >= Cardinality({ i \in DOMAIN tasks : tasks[i].appended = "yes" })

(* the four conditions of the gate, on what transcribe returned *)
Accepted(t) ==
    /\ t.transcript # << >>
    /\ t.confidence >= cfg.MIN_CONFIDENCE
    /\ Len(Strip(t.transcript)) >= cfg.MIN_TRANSCRIPT_LENGTH
    /\ WordCount(t.transcript) >= cfg.MIN_WORD_COUNT

Gated(t) == t.model_called /\ t.pc \notin {"model", "segments", "gate"}

GateVerdictIsPassed(t) ==
    quality_gate(t.transcript, t.confidence, cfg) = "pass"
       <=> analyze_passed(t.transcript, t.confidence, cfg.MIN_CONFIDENCE,
                          cfg.MIN_TRANSCRIPT_LENGTH, cfg.MIN_WORD_COUNT)

OnlyAcceptedIsWritten ==
    /\ \A i \in DOMAIN tasks :
          /\ tasks[i].appended = "yes" => Accepted(tasks[i])
          /\ Gated(tasks[i]) /\ ~Accepted(tasks[i]) =>
                tasks[i].pc = "done" /\ NothingWritten(i)
    /\ \A k \in 1..Len(log_file) : ~log_file[k].torn => Accepted(log_file[k])

(* C6: a line is appended only for a transcript that is non-empty and meets *)
(* the three thresholds, a rejected utterance leaves no clip, line or       *)
(* submission, and for a non-empty transcript the gate accepts exactly what *)
(* analyze_transcriptions classifies as passed under the same thresholds.   *)
C6_QualityGate ==
    /\ OnlyAcceptedIsWritten
    /\ \A i \in DOMAIN tasks :
          tasks[i].pc = "gate" /\ tasks[i].transcript # << >> =>
             GateVerdictIsPassed(tasks[i])

(* C6 as claimed: the gate accepts exactly what analyze_transcriptions      *)
(* classifies as passed, for every transcript                               *)
C6_AcceptedEqualsPassed ==
    /\ OnlyAcceptedIsWritten
    /\ \A i \in DOMAIN tasks :
          tasks[i].pc = "gate" => GateVerdictIsPassed(tasks[i])

(* one utterance rejected for its word count, another one logged *)
C6_Witness ==
    \E i, j \in DOMAIN tasks :
       /\ tasks[i].outcome = "few_words" /\ tasks[i].transcript = T_ONE_WORD
       /\ tasks[j].appended = "yes" /\ LinePresent(j)

C9_ModelFailureDropsUtterance ==
    \A i \in DOMAIN tasks :
       tasks[i].model_raised =>
          /\ tasks[i].transcript = << >> /\ tasks[i].confidence = 0
          /\ model_lock # i
          /\ tasks[i].pc \in {"gate", "done"}
          /\ tasks[i].pc = "done" => tasks[i].outcome = "empty"
          /\ NothingWritten(i)

(* the model failed for one utterance and a later one is logged *)
C9_Witness ==
    \E i, j \in DOMAIN tasks :
       /\ i < j
       /\ tasks[i].model_raised /\ tasks[i].outcome = "empty"
       /\ tasks[j].appended = "yes" /\ LinePresent(j)

(* C11: the threads of a session are started in non-decreasing order of    *)
(* their utterances' end_time; the order of their lines in the log is not   *)
(* fixed by it (C11_Witness: a later utterance's line precedes an earlier   *)
(* one's).                                                                  *)
C11_SpawnedInEndTimeOrder ==
    \A i, j \in DOMAIN tasks :
       i < j => tasks[i].end_time <= tasks[j].end_time

(* two lines in the log, the first of them for the utterance that ended and *)
(* was started later                                                        *)
C11_Witness ==
    \E k, m \in 1..Len(log_file) :
       /\ k < m
       /\ ~log_file[k].torn /\ ~log_file[m].torn
       /\ log_file[k].utt > log_file[m].utt
       /\ log_file[k].end > log_file[m].end

(* C27: the steps of a thread come in the order first flag check, model    *)
(* call, quality gate, second flag check, clip, log line, backend: each     *)
(* step is taken only after the one before it was taken and let the thread  *)
(* go on.  A line of the log that names an audio_file was appended after    *)
(* that clip had been written, and the backend has received nothing for an  *)
(* utterance whose line was not appended.                                   *)
C27_StepsInOrder ==
    /\ \A i \in DOMAIN tasks :
          LET t == tasks[i]
          IN  /\ t.model_called => t.flag1 = "absent"
              /\ t.flag2 # "unchecked" =>
                    /\ t.model_called
                    /\ quality_gate(t.transcript, t.confidence, cfg) = "pass"
              /\ t.wav # "none" => t.flag2 = "absent"
              /\ t.appended # "no" =>
                    /\ t.flag2 = "absent"
                    /\ cfg.AUDIO_DIR => t.wav # "none"
              /\ i \in posted => t.appended = "yes"
    /\ \A k \in 1..Len(log_file) :
          (~log_file[k].torn /\ "audio_file" \in log_file[k].keys) =>
             /\ tasks[log_file[k].utt].wav = "written"
             /\ \E f \in audio_dir : f.name = log_file[k].audio_file

(* a thread has gone through all seven steps: its clip is on disk, its line *)
(* names the clip and the backend has its submission                        *)
C27_Witness ==
    \E i \in DOMAIN tasks :
       /\ i \in posted
       /\ tasks[i].wav = "written"
       /\ \E k \in 1..Len(log_file) :
             /\ ~log_file[k].torn
             /\ log_file[k].utt = i
             /\ "audio_file" \in log_file[k].keys

(* thread i leaves _submit_to_backend without an evaluation to merge *)
SubmissionWithoutEvaluation(i) ==
    /\ tasks[i].pc = "submit"
    /\ tasks'[i].pc \notin {"submit", "update_read"}

(* C30: the submission to the backend is best effort. When the POST fails,  *)
(* times out, is answered with another status than 200 or with no           *)
(* evaluation, the log and the line appended for the utterance stay as they *)
(* are, the thread ends as after any logged utterance (no exception leaves  *)
(* it), and the capture, the model lock and the other threads are not       *)
(* touched; when session_id, student_id or video_id is missing nothing is   *)
(* posted at all.                                                           *)
C30_SubmissionIsBestEffort ==
    [][\A i \in DOMAIN tasks :
          /\ SubmissionWithoutEvaluation(i) =>
                /\ log_file' = log_file
                /\ tasks'[i].pc = "done"
                /\ tasks'[i].outcome = "logged"
                /\ tasks'[i].appended = "yes"
                /\ \A j \in DOMAIN tasks \ {i} : tasks'[j] = tasks[j]
                /\ UNCHANGED << captureVars, model_lock, stop_flag, audio_dir >>
          /\ (tasks[i].pc = "submit" /\ tasks'[i].pc # "submit" /\ ~cfg.SESSION_IDS) =>
                /\ SubmissionWithoutEvaluation(i)
                /\ posted' = posted
      ]_vars

(* the POST of the first utterance got no answer, its line is in the log,   *)
(* and the second utterance went its whole way: logged, posted, evaluated   *)
C30_Witness ==
    /\ cfg.SESSION_IDS
    /\ Len(tasks) = 2
    /\ tasks[1].pc = "done" /\ tasks[1].outcome = "logged" /\ tasks[1].appended = "yes"
    /\ 1 \notin posted
    /\ tasks[2].pc = "done" /\ tasks[2].outcome = "logged"
    /\ 2 \in posted
    /\ \E k \in 1..Len(log_file) :
          /\ log_file[k].utt = 1
          /\ ~log_file[k].torn
          /\ "similarity_score" \notin log_file[k].keys
    /\ \E k \in 1..Len(log_file) :
          /\ log_file[k].utt = 2
          /\ "similarity_score" \in log_file[k].keys

-----------------------------------------------------------------------------
(* Properties of the scheduled threads, under SpecLive *)

(* C33: transcribe releases the model lock on every way out, by return and  *)
(* by exception: the lock is held only by a thread inside transcribe, every *)
(* thread that waits for the lock comes to hold it, and every thread that   *)
(* was started ends, with its line logged or with its utterance dropped.    *)
C33_LockReleasedThreadsEnd ==
    /\ [](\A i \in 1..MaxTasks : model_lock = i => InsideTranscribe(i))
    /\ \A i \in 1..MaxTasks :
          (Running(i) /\ tasks[i].pc = "acquire") ~> (model_lock = i)
    /\ \A i \in 1..MaxTasks :
          Running(i) ~> (Running(i) /\ tasks[i].pc = "done" /\ tasks[i].outcome # "running")

(* the second thread was started while the first held the lock; the model   *)
(* raised in the first, the second got the lock, and both have ended        *)
C33_Witness ==
    /\ Len(tasks) = 2
    /\ tasks[1].model_raised /\ tasks[1].pc = "done"
    /\ tasks[2].lock_at_spawn = 1
    /\ tasks[2].model_called /\ tasks[2].pc = "done"
    /\ model_lock = Unlocked


(* the step is an iteration of the loop that ended in its handler *)
IterationRaised == closed' # closed /\ closed'.raised = "this"

(* the step is thread i ending in the handler of its outer try *)
ThreadRaised(i) == tasks[i].pc # "done" /\ tasks'[i].outcome = "error"

(* C31: an exception raised while a frame is processed or while a           *)
(* _transcribe_and_submit thread runs leaves neither the loop nor the       *)
(* thread: the frame is consumed, the loop stays inside its while as long   *)
(* as running is set, running and the process are as they were, and a       *)
(* failing thread changes nothing but its own ending.                       *)
C31_ErrorsStayInside ==
    [][/\ IterationRaised =>
            /\ running' = running
            /\ audio_queue' = Tail(audio_queue)
            /\ process'.state = process.state
            /\ process'.segmenting = running
            /\ tasks' = tasks
       /\ \A i \in DOMAIN tasks :
            ThreadRaised(i) =>
               /\ tasks'[i].pc = "done"
               /\ \A j \in DOMAIN tasks \ {i} : tasks'[j] = tasks[j]
               /\ UNCHANGED << captureVars, process, backend, workerVars >>
      ]_vars

(* an iteration ended in its handler and so did the first thread; the loop  *)
(* went on, a later frame closed a region and its thread was started        *)
C31_Witness ==
    /\ running
    /\ process.segmenting
    /\ closed.raised = "before"
    /\ closed.how = "emitted"
    /\ Len(tasks) = 2
    /\ tasks[1].outcome = "error"
    /\ tasks[2].pc = "check1"
    /\ tasks[2].start_time > tasks[1].end_time

-----------------------------------------------------------------------------
(* Properties of the evaluation merge, under SpecMerge *)

(* the lines of the log before the merge that have the timestamp *)
MergeHits ==
    { k \in 1..Len(calc.log) : ~calc.log[k].torn /\ calc.log[k].timestamp = calc.timestamp }

MergeReadable == \A k \in 1..Len(calc.log) : ~calc.log[k].torn

(* line `new` is line `old` with the scores added, and with the matched     *)
(* text added when the evaluation has one                                   *)
ScoresAdded(old, new, ev) ==
    /\ new.keys = old.keys \cup {"similarity_score", "wer"}
                     \cup (IF ev.matched_ground_truth THEN {"matched_ground_truth"} ELSE {})
    /\ new.evaluation.similarity = ev.similarity
    /\ new.evaluation.wer = ev.wer
    /\ new.evaluation.matched_ground_truth =
          (ev.matched_ground_truth \/ old.evaluation.matched_ground_truth)
    /\ DOMAIN new = DOMAIN old
    /\ \A field \in DOMAIN old \ {"keys", "evaluation"} : new[field] = old[field]

(* C29: with no other writer, _update_jsonl_with_evaluation changes only    *)
(* the first line of the log whose timestamp is the given one, adding       *)
(* similarity_score, wer and, when it is not empty, matched_ground_truth;    *)
(* the other lines and the order of the lines stay as they were, and when   *)
(* no line has the timestamp (or the log cannot be read) the file is never  *)
(* opened for writing.                                                      *)
C29_MergeTouchesOnlyFirstMatch ==
    calc.op = "merge" =>
       /\ (MergeHits = {} \/ ~MergeReadable) => log_file = calc.log
       /\ tasks[1].pc = "update_read" => log_file = calc.log
       /\ (tasks[1].pc = "done" /\ MergeHits # {} /\ MergeReadable) =>
             /\ Len(log_file) = Len(calc.log)
             /\ \A k \in 1..Len(calc.log) :
                   IF k \in MergeHits /\ \A m \in MergeHits : k <= m
                   THEN ScoresAdded(calc.log[k], log_file[k], calc.evaluation)
                   ELSE log_file[k] = calc.log[k]

(* the merge has ended on a log in which two lines have the timestamp, the  *)
(* first of them not the first line                                         *)
C29_Witness ==
    /\ calc.op = "merge"
    /\ tasks[1].pc = "done"
    /\ MergeReadable
    /\ Cardinality(MergeHits) >= 2
    /\ 1 \notin MergeHits
    /\ log_file # calc.log

-----------------------------------------------------------------------------
(* Properties of the threads around the model lock, under SpecLock *)

(* C28: the segmentation loop never waits for the model: as long as the     *)
(* service runs it can take the frames of a further speech region, close it *)
(* and start its thread, whether the model lock is free or held and however *)
(* many threads wait for it.                                                *)
C28_EmissionNeverWaits ==
    (running /\ Len(tasks) < MaxThreads) => EmissionEnabled(MaxThreads)

(* one thread holds the model lock and two threads that were started while  *)
(* it held the lock are waiting for it                                      *)
C28_Witness ==
    \E h, j, k \in DOMAIN tasks :
       /\ model_lock = h
       /\ j # k
       /\ tasks[j].pc = "acquire" /\ tasks[j].lock_at_spawn = h
       /\ tasks[k].pc = "acquire" /\ tasks[k].lock_at_spawn = h

-----------------------------------------------------------------------------
(* Properties of the segmenter, under SpecSeg *)

(* C7: every utterance add_audio returns lasts at least MIN_SPEECH_DURATION *)
(* from its start to its end, and a region that closes after a shorter time *)
(* is discarded: add_audio returns nothing for it.                          *)
C7_EmittedLongEnough ==
    /\ \A i \in DOMAIN tasks :
          tasks[i].end_time - tasks[i].start_time >= cfg.MIN_SPEECH_DURATION
    /\ closed.result.kind = "utterance" =>
          closed.result.end_time - closed.result.start_time >= cfg.MIN_SPEECH_DURATION
    /\ closed.how # "none" =>
          IF closed.speech_duration < cfg.MIN_SPEECH_DURATION
          THEN closed.how = "discarded" /\ closed.result = NoResult
          ELSE closed.how = "emitted" /\ closed.result.kind = "utterance"

(* a region was emitted and a later, shorter one has just been discarded *)
C7_Witness ==
    /\ closed.how = "discarded"
    /\ Len(tasks) >= 1

(* C19: a call of add_audio closes a speech region, emitting or discarding  *)
(* it, exactly when a region is open, the frame has no speech, and the      *)
(* frame's timestamp is at least SPEECH_TIMEOUT after the first frame       *)
(* without speech since the last frame with speech.  silence_start_time,    *)
(* when set, is that first frame's timestamp, and a frame with speech       *)
(* leaves it cleared.                                                       *)
C19_ClosedOnlyAfterTimeout ==
    /\ closed.how # "none" <=>
          /\ closed.was_speech
          /\ ~closed.vad_speech
          /\ closed.timestamp - closed.silence_since >= cfg.SPEECH_TIMEOUT
    /\ closed.vad_speech => ab.silence_start_time = None
    /\ ab.silence_start_time # None => ab.silence_start_time = closed.silence_since

(* a region has closed in which speech had come back after a silence *)
C19_Witness ==
    /\ closed.how # "none"
    /\ closed.resumed

(* C20: after every call of add_audio is_speech holds exactly when          *)
(* speech_start_time is set, and silence_start_time is set only while       *)
(* is_speech holds; after a call that closed a region, emitted or           *)
(* discarded, the segmenter is idle: is_speech false, the utterance buffer  *)
(* empty, both time markers cleared and the VAD window empty.               *)
C20_StateConsistent ==
    /\ ab.is_speech <=> ab.speech_start_time # None
    /\ ab.silence_start_time # None => ab.is_speech
    /\ closed.how # "none" =>
          /\ ~ab.is_speech
          /\ ab.buffer = << >>
          /\ ab.speech_start_time = None
          /\ ab.silence_start_time = None
          /\ ab.silero_buffer = << >>

(* a region has just been emitted, and one had been emitted before it *)
C20_Witness ==
    /\ closed.how = "emitted"
    /\ Len(tasks) >= 2

(* C21: with the circular buffer enabled, the call of add_audio that opens  *)
(* a speech region sets the utterance buffer to the whole circular buffer   *)
(* (followed by the frame itself) and speech_start_time to the frame's      *)
(* timestamp; in an emitted utterance the samples before the first sample   *)
(* of that frame are at most int(BUFFER_DURATION * sample_rate) and all     *)
(* were captured before that frame.                                         *)
PreRoll(audio, start_sample) ==
    LET first == CHOOSE i \in 1..Len(audio) :
                    /\ audio[i] = start_sample
                    /\ \A j \in 1..(i - 1) : audio[j] # start_sample
    IN  SubSeq(audio, 1, first - 1)

C21_PreRollFromRing ==
    cfg.USE_CIRCULAR_BUFFER =>
       /\ (closed.vad_speech /\ ~closed.was_speech) =>
             /\ ab.buffer = ab.circular_buffer
                               \o LastN(ab.circular_buffer, CHUNK_SIZE)
             /\ ab.speech_start_time = closed.timestamp
       /\ closed.how = "emitted" =>
             LET pre == PreRoll(closed.result.audio.of, closed.start_sample)
             IN  /\ Len(pre) <= SamplesIn(BUFFER_DURATION)
                 /\ \A i \in 1..Len(pre) : pre[i] < closed.start_sample

(* an utterance was emitted whose region opened on a full ring, from which  *)
(* the oldest samples had fallen                                            *)
C21_Witness ==
    /\ cfg.USE_CIRCULAR_BUFFER
    /\ closed.how = "emitted"
    /\ closed.result.audio.of[1] > 1
    /\ closed.start_sample > SamplesIn(BUFFER_DURATION)

(* C22: with the circular buffer enabled, after any number of add_audio     *)
(* calls circular_buffer holds no more than int(BUFFER_DURATION *           *)
(* sample_rate) samples, and they are the newest samples handed to          *)
(* add_audio so far, in capture order: all of them while they fit, the last *)
(* capacity-many afterwards, whatever the VAD decided and whether a region  *)
(* was open.                                                                *)
C22_RingHoldsNewest ==
    cfg.USE_CIRCULAR_BUFFER =>
       LET capacity == SamplesIn(BUFFER_DURATION)
           total == (captured - Len(audio_queue)) * CHUNK_SIZE
           kept == IF total < capacity THEN total ELSE capacity
       IN  /\ Len(ab.circular_buffer) <= capacity
           /\ ab.circular_buffer = [k \in 1..kept |-> total - kept + k]

(* the ring is full and has dropped samples while a region is open and the  *)
(* last frame had no speech                                                 *)
C22_Witness ==
    /\ cfg.USE_CIRCULAR_BUFFER
    /\ Len(ab.circular_buffer) = SamplesIn(BUFFER_DURATION)
    /\ ab.circular_buffer[1] > 1
    /\ ab.is_speech
    /\ ~closed.vad_speech

(* C23: the VAD's decision on a frame is false while its window, the frame  *)
(* included, holds less than silero_buffer_duration (1 s) of samples; and   *)
(* no call of add_audio opens a speech region before 1 s of samples has     *)
(* been handed to add_audio since the start or since the last call that     *)
(* closed a region.                                                         *)
C23_WarmUpBeforeSpeech ==
    /\ closed.vad_speech =>
          Len(ab.silero_buffer) >= SamplesIn(silero_buffer_duration)
    /\ (closed.vad_speech /\ ~closed.was_speech) =>
          closed.fed >= SamplesIn(silero_buffer_duration)

(* a region opens on the very frame that completes the window after an      *)
(* earlier region was closed                                                *)
C23_Witness ==
    /\ closed.vad_speech
    /\ ~closed.was_speech
    /\ Len(tasks) >= 1
    /\ Len(ab.silero_buffer) = SamplesIn(silero_buffer_duration)

(* C24: a frame on which the VAD raises is decided as a frame without       *)
(* speech, and after every call of add_audio, that one included, the VAD    *)
(* window holds at most 1.5 times silero_buffer_duration of samples.        *)
C24_VadFailureIsSilence ==
    /\ closed.vad_failed => ~closed.vad_speech
    /\ Len(ab.silero_buffer) <= (silero_buffer_duration * 3 * SAMPLE_RATE) \div 4

(* the VAD raises on a frame during an open region, which stays open as on  *)
(* a first frame of silence                                                 *)
VadFailedInsideRegion ==
    /\ closed.vad_failed
    /\ closed.was_speech
    /\ ab.is_speech
    /\ ab.silence_start_time = closed.timestamp

(* the captured samples in s, in the order of s, are consecutive *)
OneRun(s) == \A k \in 1..(Len(s) - 1) : s[k + 1] = s[k] + 1

(* C34: before resampling, the samples of an emitted utterance are one run  *)
(* of the captured stream in capture order, each captured sample at most    *)
(* once: the frame that opens the region is not in it twice.                *)
C34_UtteranceIsOneRun ==
    closed.how = "emitted" => OneRun(closed.result.audio.of)

(* the captured samples handed to thread i *)
SamplesOf(i) == { tasks[i].audio_data.of[k] : k \in 1..Len(tasks[i].audio_data.of) }

(* C35: no captured sample is in two emitted utterances of a session: the   *)
(* pre-roll of an utterance has nothing of the utterance emitted before it. *)
C35_UtterancesShareNoSample ==
    \A i, j \in DOMAIN tasks : i < j => SamplesOf(i) \cap SamplesOf(j) = {}

(* C36: frame timestamps never decrease, so a region that closes has lasted *)
(* at least SPEECH_TIMEOUT from its first frame to the closing one; with    *)
(* SPEECH_TIMEOUT >= MIN_SPEECH_DURATION every region that closes is        *)
(* emitted and the discard branch of add_audio is never taken.              *)
C36_DiscardUnreachable ==
    /\ closed.how # "none" => closed.speech_duration >= cfg.SPEECH_TIMEOUT
    /\ cfg.SPEECH_TIMEOUT >= cfg.MIN_SPEECH_DURATION => closed.how # "discarded"

(* under the defaults a region has closed after one frame of speech and the *)
(* shortest silence that closes it, and it was emitted                      *)
C36_Witness ==
    /\ cfg.SPEECH_TIMEOUT >= cfg.MIN_SPEECH_DURATION
    /\ closed.how = "emitted"
    /\ closed.speech_duration = cfg.SPEECH_TIMEOUT + 1

(* C32: once stop() has cleared running, the segmentation loop is left      *)
(* within one wait on the queue and no thread is started for an utterance   *)
(* any more: frames still queued and a region still open are never emitted. *)
C32_NoThreadAfterStop ==
    [][~running => Len(tasks') = Len(tasks)]_vars

(* C13: the process exits with a non-zero status when audio capture failed *)
(* (opening or running the input stream raised in start) and with 0 after a *)
(* normal shutdown.                                                         *)
C13_ExitCodeTellsAudioFailure ==
    process.state = "exited" =>
       (process.audio_failed <=> process.exit_code # 0)

(* C12: the frames waiting in audio_queue never exceed a fixed capacity.    *)
(* The queue is built without one, so the capacity is taken as large as it  *)
(* can be told apart here: one frame less than the longest queue explored.  *)
C12_QueueWithinCapacity ==
    Len(audio_queue) < MaxQueue

-----------------------------------------------------------------------------
(* Properties of the matchers, under SpecMatch *)

(* the similarity of the transcript with the k-th reference message *)
MessageSimilarity(k) ==
    similarity_of(normalize_text(request.ground_truth_messages[k]),
                  normalize_text(request.transcript))

(* the normalised transcript is empty, or no reference reaches the threshold *)
BelowThreshold ==
    \/ normalize_text(request.transcript) = << >>
    \/ \A k \in 1..Len(request.ground_truth_messages) :
          Less(MessageSimilarity(k), MATCH_THRESHOLD)

(* C10: when the normalised transcript is empty or the best similarity is   *)
(* below MATCH_THRESHOLD, best_match_similarity and evaluate_transcription  *)
(* both report index -1 and no matched reference.                           *)
C10_BelowThresholdUnmatched ==
    BelowThreshold =>
       /\ best_answer # << >> =>
             best_answer[1].index = -1 /\ best_answer[1].similarity = None
       /\ eval_answer # << >> =>
             /\ eval_answer[1].matched_message_index = -1
             /\ eval_answer[1].matched_ground_truth = << >>

(* best_match_similarity alone reports no match below the threshold *)
BestMatchRespectsThreshold ==
    BelowThreshold /\ best_answer # << >> =>
       best_answer[1].index = -1 /\ best_answer[1].similarity = None

(* the k-th reference is as similar to the transcript as any *)
IsBest(k) ==
    \A j \in 1..Len(request.ground_truth_messages) :
       ~Less(MessageSimilarity(k), MessageSimilarity(j))

(* several references have the maximum similarity *)
Tied ==
    \E i, j \in 1..Len(request.ground_truth_messages) :
       i # j /\ IsBest(i) /\ IsBest(j)

(* the lowest index, counted from 0, among the references of maximum        *)
(* similarity                                                               *)
LowestBest ==
    (CHOOSE k \in 1..Len(request.ground_truth_messages) :
        IsBest(k) /\ \A j \in 1..(k - 1) : ~IsBest(j)) - 1

(* one score per reference, in the order of the references *)
OneScorePerMessage(per_message_scores) ==
    /\ Len(per_message_scores) = Len(request.ground_truth_messages)
    /\ \A k \in 1..Len(per_message_scores) :
          /\ per_message_scores[k].message_index = k - 1
          /\ per_message_scores[k].message = request.ground_truth_messages[k]
          /\ per_message_scores[k].similarity = round4(MessageSimilarity(k))

(* no reference has a similarity above 0 *)
NothingInCommon ==
    \A k \in 1..Len(request.ground_truth_messages) :
       MessageSimilarity(k).num = 0

(* C26, as stated: when several references have the maximum similarity to   *)
(* the transcript, both matchers report the lowest index among them, and    *)
(* evaluate_transcription returns one score per reference, in reference     *)
(* order.                                                                   *)
C26_TieGoesToLowestIndex ==
    /\ Tied /\ best_answer # << >> => best_answer[1].index = LowestBest
    /\ Tied /\ eval_answer # << >> => eval_answer[1].matched_message_index = LowestBest
    /\ eval_answer # << >> => OneScorePerMessage(eval_answer[1].per_message_scores)

(* C26, amended: a matcher that reports a match reports the lowest index    *)
(* among the references of maximum similarity.  evaluate_transcription      *)
(* reports index -1 exactly when there is no reference or none has a        *)
(* similarity above 0, best_match_similarity exactly when the normalised    *)
(* transcript is empty or no reference reaches the threshold.               *)
(* evaluate_transcription returns one score per reference, in reference     *)
(* order.                                                                   *)
C26_MatchIsLowestBestIndex ==
    /\ best_answer # << >> =>
          best_answer[1].index = IF BelowThreshold THEN -1 ELSE LowestBest
    /\ eval_answer # << >> =>
          /\ eval_answer[1].matched_message_index =
                IF NothingInCommon THEN -1 ELSE LowestBest
          /\ OneScorePerMessage(eval_answer[1].per_message_scores)

(* two different references tie above the threshold and both matchers       *)
(* report the first                                                         *)
C26_Witness ==
    /\ Tied
    /\ Len(request.ground_truth_messages) = 2
    /\ request.ground_truth_messages[1] # request.ground_truth_messages[2]
    /\ best_answer # << >> /\ best_answer[1].index = 0
    /\ eval_answer # << >> /\ eval_answer[1].matched_message_index = 0

-----------------------------------------------------------------------------
(* Properties of the text functions, under SpecText *)

(* C14: normalize_text applied to its own result returns it unchanged.      *)
C14_NormalizeIdempotent ==
    calc.op = "normalize_text" /\ Len(calc.out) = 2 => calc.out[2] = calc.out[1]

(* C15: the similarity of two strings lies between 0 and 1, is the same for *)
(* the two orders of its arguments, and is 1 for equal strings (two empty   *)
(* strings included).                                                       *)
C15_SimilarityRangeSymmetry ==
    calc.op = "similarity" =>
       /\ \A k \in 1..Len(calc.out) :
             /\ calc.out[k].den > 0
             /\ 0 <= calc.out[k].num /\ calc.out[k].num <= calc.out[k].den
             /\ calc.a = calc.b => calc.out[k].num = calc.out[k].den
       /\ Len(calc.out) = 2 =>
             calc.out[1].num * calc.out[2].den = calc.out[2].num * calc.out[1].den

(* both orders computed for strings of different lengths that are neither   *)
(* equal nor wholly different                                               *)
C15_Witness ==
    /\ calc.op = "similarity"
    /\ Len(calc.out) = 2
    /\ Len(calc.a) < Len(calc.b)
    /\ 0 < calc.out[1].num /\ calc.out[1].num < calc.out[1].den

(* the strings of a sequence, concatenated *)
RECURSIVE Concat(_)
Concat(pieces) == IF pieces = << >> THEN << >> ELSE Head(pieces) \o Concat(Tail(pieces))

IsTensWord(word) == number_map[word] >= 20 /\ number_map[word] < 100
IsSubTen(word) == number_map[word] < 10

(* what each word of a digit-style run contributes: nothing when it is the  *)
(* unit of the tens-word before it, the two-digit compound when it is a     *)
(* tens-word with a unit after it, its own value otherwise                  *)
DigitPieces(words) ==
    [i \in 1..Len(words) |->
        IF i > 1 /\ IsSubTen(words[i]) /\ IsTensWord(words[i - 1]) THEN << >>
        ELSE IF IsTensWord(words[i]) /\ i < Len(words) /\ IsSubTen(words[i + 1])
        THEN str(number_map[words[i]] + number_map[words[i + 1]])
        ELSE str(number_map[words[i]])]

DigitStyleRun(words) == \A k \in 1..Len(words) : number_map[words[k]] < 100

(* C16: for a run of number words all below one hundred, words_to_number    *)
(* returns the concatenation, left to right, of one two-digit string for    *)
(* each tens-word immediately followed by a sub-ten word and of the own     *)
(* value of every other word.                                               *)
C16_DigitStyleFolding ==
    calc.op = "words_to_number" /\ calc.out # << >> /\ DigitStyleRun(calc.words) =>
       calc.out[1] = Concat(DigitPieces(calc.words))

(* four eighty one has been folded to 481 *)
C16_Witness ==
    /\ calc.op = "words_to_number"
    /\ calc.words = << W_FOUR, W_EIGHTY, W_ONE >>
    /\ calc.out = << << "4", "8", "1" >> >>

(* the sum of the values of f over the set S *)
RECURSIVE SumOver(_, _)
SumOver(f, S) ==
    IF S = {} THEN 0
    ELSE LET x == CHOOSE y \in S : TRUE IN f[x] + SumOver(f, S \ {x})

IsScale(word) == number_map[word] >= 1000
IsHundred(word) == number_map[word] >= 100 /\ number_map[word] < 1000

(* the words between two thousands (or an end of the run) form a group:     *)
(* the position after the group of word i, and the position it starts at    *)
GroupEnd(words, i) ==
    LET later == { p \in i..Len(words) : IsScale(words[p]) }
    IN  IF later = {} THEN Len(words) + 1
        ELSE CHOOSE p \in later : \A q \in later : p <= q

GroupStart(words, i) ==
    LET earlier == { p \in 1..(i - 1) : IsScale(words[p]) }
    IN  IF earlier = {} THEN 1
        ELSE 1 + CHOOSE p \in earlier : \A q \in earlier : p >= q

HundredsAfter(words, i) ==
    Cardinality({ h \in (i + 1)..(GroupEnd(words, i) - 1) : IsHundred(words[h]) })

(* the place value of word i inside its group: a unit counts once for each  *)
(* hundred after it, a hundred counts by itself only when nothing but zeros *)
(* stands before it in the group                                            *)
PlaceValue(words, i) ==
    IF IsScale(words[i]) THEN 0
    ELSE IF IsHundred(words[i])
    THEN IF \A k \in GroupStart(words, i)..(i - 1) : number_map[words[k]] = 0
         THEN 100 ^ (HundredsAfter(words, i) + 1) ELSE 0
    ELSE number_map[words[i]] * (100 ^ HundredsAfter(words, i))

(* the sub-result of the words first..last *)
SubResult(words, first, last) ==
    SumOver([i \in first..last |-> PlaceValue(words, i)], first..last)

(* the value of a run: each group before a thousand times that scale, the   *)
(* sub-result 0 counting as 1 there when bare_is_one, and the last group    *)
PositionalValue(words, bare_is_one) ==
    LET scales == { p \in 1..Len(words) : IsScale(words[p]) }
        group == [p \in scales |->
                    LET sub == SubResult(words, GroupStart(words, p), p - 1)
                    IN  (IF sub = 0 /\ bare_is_one THEN 1 ELSE sub)
                           * number_map[words[p]]]
    IN  SumOver(group, scales)
           + SubResult(words, GroupStart(words, Len(words) + 1), Len(words))

MathematicalRun(words) == \E k \in 1..Len(words) : number_map[words[k]] >= 100

(* C17: for a run of number words with hundred or thousand in it,           *)
(* words_to_number returns the positional value of the phrase: units add    *)
(* up, hundred multiplies what stands before it in its group by 100,        *)
(* thousand adds the group before it times 1000 to the total, and a group   *)
(* whose value is 0 counts as 1 before hundred and before thousand.         *)
C17_MathematicalFolding ==
    calc.op = "words_to_number" /\ calc.out # << >> /\ MathematicalRun(calc.words) =>
       calc.out[1] = str(PositionalValue(calc.words, TRUE))

(* C17 as claimed: a sub-result of 0 counts as 1 before hundred only, and   *)
(* thousand adds the sub-result as it is, times the scale                   *)
C17_ThousandAddsSubResult ==
    calc.op = "words_to_number" /\ calc.out # << >> /\ MathematicalRun(calc.words) =>
       calc.out[1] = str(PositionalValue(calc.words, FALSE))

(* one thousand one hundred has been folded to 1100 *)
C17_Witness ==
    /\ calc.op = "words_to_number"
    /\ calc.words = << W_ONE, W_THOUSAND, W_ONE, W_HUNDRED >>
    /\ calc.out = << << "1", "1", "0", "0" >> >>

(* text.split("\n") *)
RECURSIVE Lines(_, _, _)
Lines(text, line, lines) ==
    IF text = << >> THEN Append(lines, line)
    ELSE IF Head(text) = "\n" THEN Lines(Tail(text), << >>, Append(lines, line))
    ELSE Lines(Tail(text), Append(line, Head(text)), lines)

IsDelimiterLine(line) == Strip(line) = DELIMITER

(* the messages between the lines that consist solely of the delimiter: the *)
(* lines of each message joined again, stripped, the empty ones dropped     *)
RECURSIVE MessagesBetweenLines(_, _, _)
MessagesBetweenLines(lines, message, messages) ==
    LET closed_messages ==
            IF Strip(message) = << >> THEN messages ELSE Append(messages, Strip(message))
    IN  IF lines = << >> THEN closed_messages
        ELSE IF IsDelimiterLine(Head(lines))
        THEN MessagesBetweenLines(Tail(lines), << >>, closed_messages)
        ELSE MessagesBetweenLines(Tail(lines), message \o << "\n" >> \o Head(lines),
                                  messages)

(* every occurrence of the delimiter in the text is a line of its own *)
DelimiterOnlyAsLine(content) ==
    LET lines == Lines(content, << >>, << >>)
    IN  \A k \in 1..Len(lines) :
           IsDelimiterLine(lines[k])
              \/ \A j \in 1..(Len(lines[k]) - 2) : SubSeq(lines[k], j, j + 2) # DELIMITER

(* C18: the reference messages of a ground-truth text are its parts between *)
(* the lines that consist solely of ---, in file order, stripped, without   *)
(* the empty ones; the text is split nowhere else.                          *)
C18_SplitAtDelimiterLines ==
    calc.op = "ground_truth" /\ calc.out # << >> =>
       calc.out[1] = MessagesBetweenLines(Lines(calc.content, << >>, << >>), << >>, << >>)

(* the same for the texts in which --- occurs only as a line of its own *)
SplitAgreesOnDelimiterLines ==
    calc.op = "ground_truth" /\ calc.out # << >> /\ DelimiterOnlyAsLine(calc.content) =>
       calc.out[1] = MessagesBetweenLines(Lines(calc.content, << >>, << >>), << >>, << >>)

(* C25: levenshtein_distance(s1, s2) is the least number of single-character *)
(* insertions, deletions and substitutions that turn s1 into s2, for all    *)
(* strings over two letters up to MaxTextLen, the empty string and the      *)
(* pairs with s1 the shorter one included.                                  *)
Alphabet == {"a", "b"}

(* the strings one edit away from s *)
OneEdit(s) ==
    { SubSeq(s, 1, i - 1) \o SubSeq(s, i + 1, Len(s)) : i \in 1..Len(s) }
       \cup { SubSeq(s, 1, i - 1) \o << ch >> \o SubSeq(s, i + 1, Len(s)) :
                 i \in 1..Len(s), ch \in Alphabet }
       \cup { SubSeq(s, 1, i) \o << ch >> \o SubSeq(s, i + 1, Len(s)) :
                 i \in 0..Len(s), ch \in Alphabet }

(* the least n such that target is among the strings n edits away from a    *)
(* string of reached; no string on a shortest way is longer than the longer *)
(* of its two ends                                                          *)
RECURSIVE EditsNeeded(_, _, _, _)
EditsNeeded(reached, target, longest, n) ==
    IF target \in reached THEN n
    ELSE LET next == { t \in UNION { OneEdit(s) : s \in reached } : Len(t) <= longest }
         IN  EditsNeeded(reached \cup next, target, longest, n + 1)

C25_LevenshteinIsEditDistance ==
    calc.op = "levenshtein_distance" /\ calc.out # << >> =>
       calc.out[1] = EditsNeeded({calc.s1}, calc.s2,
                                 IF Len(calc.s1) > Len(calc.s2)
                                 THEN Len(calc.s1) ELSE Len(calc.s2), 0)

(* the distance of a string to a longer one that shares no position with   *)
(* it: a substitution and an insertion at least                             *)
C25_Witness ==
    /\ calc.op = "levenshtein_distance"
    /\ calc.out # << >>
    /\ 0 < Len(calc.s1) /\ Len(calc.s1) < Len(calc.s2)
    /\ calc.out[1] = Len(calc.s2)

(* the distance from and to the empty string is the length of the other *)
DistanceOfEmpty ==
    calc.op = "levenshtein_distance" /\ calc.out # << >> =>
       /\ calc.s1 = << >> => calc.out[1] = Len(calc.s2)
       /\ calc.s2 = << >> => calc.out[1] = Len(calc.s1)

-----------------------------------------------------------------------------
(* Properties of the backend's routes, under SpecBackend *)

(* C37: a stop flag left by an earlier session is never found by a new      *)
(* one.  Once a service has set up its logging, and when its first          *)
(* utterance thread reads the flag, the file exists only if a stop request  *)
(* created it after that process was spawned.                               *)
C37_StaleFlagNeverSeen ==
    \A p \in DOMAIN backend.spawned :
        /\ (backend.spawned[p].service \in {"ready", "serving"} /\ stop_flag)
               => backend.touched_for >= p
        /\ backend.spawned[p].first_task = "present"
               => backend.spawned[p].flag_from >= p

(* a flag was on disk when the backend started; the first process found the *)
(* flag a stop request had created for it, the second process found none    *)
C37_Witness ==
    /\ backend.stale
    /\ Len(backend.spawned) = 2
    /\ backend.spawned[1].first_task = "present"
    /\ backend.spawned[2].first_task = "absent"

(* C38 as stated: a stop handler that has sent a signal has created the     *)
(* flag file before, and one that has returned with success has left no     *)
(* entry in the table.                                                      *)
C38_FlagCreatedBeforeSignal ==
    \A h \in DOMAIN backend.handlers :
        /\ backend.handlers[h].signalled => backend.handlers[h].touch = "created"
        /\ (backend.handlers[h].kind = "stop"
              /\ backend.handlers[h].outcome = "success")
               => ~backend.handlers[h].left_entry

(* C38, amended: a stop handler calls touch() before it sends any signal,   *)
(* and the call creates the flag file unless it raises (which is logged);   *)
(* at the step in which the handler returns with success the table has no   *)
(* entry for the student, whether the process was tracked or not and        *)
(* whether the launcher ended on SIGTERM or was killed.                     *)
C38_TouchBeforeSignalNoEntryLeft ==
    [][ \A h \in DOMAIN backend.handlers :
          LET before == backend.handlers[h]
              after == backend'.handlers[h]
          IN  before.kind = "stop" =>
                /\ after.signalled => after.touch \in {"created", "failed"}
                /\ (~before.signalled /\ after.signalled)
                       => before.touch \in {"created", "failed"}
                /\ (before.touch = "none" /\ after.touch = "created")
                       => stop_flag'
                /\ (before.outcome # "success" /\ after.outcome = "success")
                       => /\ backend'.asr_processes = None
                          /\ ~after.left_entry
      ]_vars

(* one stop request found the process tracked, created the flag, had to     *)
(* kill the launcher and returned with success; another found no entry,     *)
(* signalled with pkill and returned with success                           *)
C38_Witness ==
    \E h, g \in DOMAIN backend.handlers :
        /\ backend.handlers[h].kind = "stop"
        /\ backend.handlers[h].outcome = "success"
        /\ backend.handlers[h].tracked
        /\ backend.handlers[h].killed
        /\ backend.handlers[h].touch = "created"
        /\ backend.handlers[g].kind = "stop"
        /\ backend.handlers[g].outcome = "success"
        /\ ~backend.handlers[g].tracked
        /\ backend.handlers[g].signalled
        /\ backend.asr_processes = None

(* C39: at most one process spawned for the student is alive, and every     *)
(* alive one is the process recorded in _asr_processes.                     *)
C39_OneTrackedProcess ==
    LET alive == {p \in DOMAIN backend.spawned : Alive(backend.spawned[p])}
    IN  /\ Cardinality(alive) <= 1
        /\ \A p \in alive : backend.asr_processes = p

====
